---------------------------- MODULE Spec2Model ----------------------------
(***************************************************************************)
(* VyapariBot: the transaction ledger, the invoice tool, the deletion      *)
(* wizard and the per-chat rate limiter of src/app.py and                  *)
(* src/tools_util.py, as state machines.                                   *)
(*                                                                         *)
(* The specifications share the variables; each moves its own part of the  *)
(* state and leaves the rest at its initial value:                         *)
(*   SpecRateLimiter  rate_limiter._dependency (src/app.py:54-85)          *)
(*   SpecInvoice      handle_invoice_request, write_transaction            *)
(*   SpecWizard       handle_delete_callback, handle_text_message          *)
(*   SpecLedger, SpecAccounts   write_transaction, the account rollups     *)
(*   SpecValidate     the argument checks of handle_invoice_request        *)
(*   SpecLog, SpecProgress      log_message, run_with_progress             *)
(*   SpecWebhook      telegram_webhook and the tasks it starts             *)
(*   SpecKeyboards, SpecCsv     the wizard keyboards, the CSV download     *)
(*   SpecTax, SpecWords         generate_invoice's tax, number_to_words    *)
(*   SpecTokens, SpecReads      the callback tokens, the wizard's reads    *)
(*   SpecRollup, SpecTaxRow     update_user_data side by side, tax_amount  *)
(***************************************************************************)
EXTENDS Integers, Sequences, FiniteSets, TLC

\* ------------------------------------------------------------------ bounds
\* Telegram chat ids (accounts) of the model.
Chats == {"101", "102"}

\* Webhook requests that can be in flight at once (FastAPI runs each request
\* as its own task on the one event loop).
Requests == {"r1", "r2"}

\* The clock (time.time(), whole seconds) runs from 0 to MaxTime.
MaxTime == 3

\* rate_limiter(max_calls, time_window) is a factory; the webhook instantiates
\* it with (20, 60).  The model checks the same code with a small window.
max_calls == 2
time_window == 2

\* Item names, quantities and GST-inclusive unit prices a caller passes.
ItemNames == {"tea", "sugar"}
Quantities == {1, 2}
Prices == {10}
Discounts == {0}

\* Longest list handle_invoice_request is called with.
MaxItems == 2

\* Seconds in a day, scaled down from 86400: second 0 is 00:00:00 and second
\* DayLen - 1 is 23:59:59.
DayLen == 2

\* Most rows of a ledger SpecWizard starts from.
WizRows == 2

\* Most write_transaction calls of a run of SpecLedger.
MaxRows == 2

\* tools_util.py:23  MAX_HISTORY = 5, scaled down
MAX_HISTORY == 2
\* The message dates are 1..MaxDate.
MaxDate == 3
\* At most MaxLogRows rows are ever inserted into the message log.
MaxLogRows == 4
\* The threads of the pool that can run log_message at the same time.
LogWorkers == {"w1", "w2"}

\* ------------------------------------------------------------------ state
VARIABLES
    now,            \* time.time()
    call_times,     \* rate_limiter: the closure-level dict chat_id -> [timestamps]
    inflight,       \* request -> chat id of its body, while it is suspended at
                    \*            `await request.json()`; Idle otherwise
    admitted,       \* history: every admission time of a chat, in order
    last,           \* history: the outcome of the most recent admission check
    transactions,   \* table vyapari_transactions: the rows, in insertion order
    users,          \* table vyapari_user: chat_id -> row, or NoUser
    call,           \* the handle_invoice_request invocation in progress
    wtCalls,        \* history: the <<chat, invoice>> of every write_transaction call entered
    wtGross,        \* history: sum of price_per_unit*quantity of the rows inserted, per chat
    storeFailed,    \* history: some store call of write_transaction has raised
    PENDING_SEARCH, \* app.py:270  chat ids waiting for an invoice number
    screen,         \* the chat and the text of the wizard's latest message
    flow,           \* history: the chat that last sent del_recent, and how far
                    \*   it is into the sequence del_recent, del_date, del_inv,
                    \*   del_item
    message_log,    \* table vyapari_message_log: the set of rows
    logCall,        \* worker -> the log_message call it is running
    logInserted,    \* history: chat -> message date -> rows ever inserted
    logOverlapped,  \* history: two log_message calls have run at the same time
    progress,       \* chat -> the run_with_progress call of its request, with
                    \*   its stop_evt and its typing_spinner task
    webhook,        \* request -> the update it carries, how far telegram_webhook
                    \*   has got with it, and the HTTP response
    phone,          \* column phone of vyapari_user: the chats whose row has one
    eval            \* a call of a pure helper: its arguments and its result

rateVars == <<now, call_times, inflight, admitted, last>>
ledgerVars == <<transactions, users, wtCalls, wtGross, storeFailed>>

wizVars == <<PENDING_SEARCH, screen, flow>>

logVars == <<message_log, logCall, logInserted, logOverlapped>>

hookVars == <<webhook, phone, eval>>

\* What the rate limiter, the ledger, the invoice tool and the wizard never
\* touch.
otherVars == <<logVars, progress, hookVars>>

nonRateVars == <<ledgerVars, call, wizVars, otherVars>>

vars == <<rateVars, ledgerVars, call, wizVars, otherVars>>

\* body.get("message", {}).get("chat", {}).get("id") is None
NoChat == "None"
Idle == "idle"
NoCheck == [chat |-> NoChat, outcome |-> "none", inWindow |-> 0, allElapsed |-> FALSE]

\* The message dates log_message can store.
LogDates == 1..MaxDate

\* The worker runs no log_message call.
NoLogCall == [pc |-> "idle", chat_id |-> NoChat, date |-> 0, old |-> {}]

\* The message log is empty and no call is running.
LogInit ==
    /\ message_log = {}
    /\ logCall = [w \in LogWorkers |-> NoLogCall]
    /\ logInserted = [c \in Chats |-> [d \in LogDates |-> 0]]
    /\ logOverlapped = FALSE

\* No run_with_progress call has been made for the chat.
NoProgress == [pc |-> "idle", outcome |-> "none", stop_evt |-> FALSE,
               spinner |-> "none", typed |-> FALSE]

\* No request has arrived.
NoUpdate == [kind |-> "none", chat |-> NoChat, known |-> FALSE, pc |-> "idle",
             response |-> "none", ran |-> FALSE, user_record |-> FALSE,
             task |-> "none"]

\* No helper has been called.
NoEval == [f |-> "none"]

HookInit ==
    /\ webhook = [r \in Requests |-> NoUpdate]
    /\ phone = {}
    /\ eval = NoEval

OtherInit ==
    /\ LogInit
    /\ progress = [c \in Chats |-> NoProgress]
    /\ HookInit

\* ------------------------------------------------------------ rate limiter
\* Mutant of Prune: the list is never pruned.
Prune_NoPrune(times, t) == times

\* app.py:75  [t for t in call_times[chat_id] if now - t < time_window]
Prune(times, t) == SelectSeq(times, LAMBDA x : t - x < time_window)

\* Mutant of LimitReached: off by one (> instead of >=).
LimitReached_OffByOne(times) == Len(times) > max_calls

\* app.py:77  if len(call_times[chat_id]) >= max_calls: raise HTTPException(429)
LimitReached(times) == Len(times) >= max_calls

\* Number of admissions of chat c whose time lies in the window that trails T:
\* the admissions a with T - time_window < a <= T.
InWindow(c, T) ==
    Cardinality({i \in 1..Len(admitted[c]) :
                    admitted[c][i] <= T /\ T - admitted[c][i] < time_window})

\* Chat c has admissions, and every one of them is older than time_window at T.
AllElapsed(c, T) ==
    /\ Len(admitted[c]) > 0
    /\ \A i \in 1..Len(admitted[c]) : T - admitted[c][i] > time_window

\* A webhook request arrives with a body whose chat id is c (NoChat: a body
\* without message.chat.id); _dependency starts and suspends at
\* `body = await request.json()` (app.py:62).
Arrive(r, c) ==
    /\ inflight[r] = Idle
    /\ inflight' = [inflight EXCEPT ![r] = c]
    /\ UNCHANGED <<now, call_times, admitted, last, nonRateVars>>

\* Mutant of Check: the timestamp is recorded before the count, so a rejected
\* check leaves it in the window too.
Check_RecordsFirst(r) ==
    /\ inflight[r] \in Chats
    /\ inflight' = [inflight EXCEPT ![r] = Idle]
    /\ LET c == inflight[r]
           recorded == Append(Prune(call_times[c], now), now)
           rec(o) == [chat |-> c, outcome |-> o,
                      inWindow |-> InWindow(c, now),
                      allElapsed |-> AllElapsed(c, now)]
       IN  /\ call_times' = [call_times EXCEPT ![c] = recorded]
           /\ IF Len(recorded) > max_calls
              THEN /\ last' = rec("429")
                   /\ UNCHANGED admitted
              ELSE /\ admitted' = [admitted EXCEPT ![c] = Append(@, now)]
                   /\ last' = rec("admitted")
    /\ UNCHANGED <<now, nonRateVars>>

\* app.py:73-83: the rest of _dependency has no await, so it runs as one step
\* of the event loop: read the clock, prune, compare, then append or raise 429.
Check(r) ==
    /\ inflight[r] \in Chats
    /\ inflight' = [inflight EXCEPT ![r] = Idle]
    /\ LET c == inflight[r]
           pruned == Prune(call_times[c], now)
           rec(o) == [chat |-> c, outcome |-> o,
                      inWindow |-> InWindow(c, now),
                      allElapsed |-> AllElapsed(c, now)]
       IN  IF LimitReached(pruned)
           THEN /\ call_times' = [call_times EXCEPT ![c] = pruned]
                /\ last' = rec("429")
                /\ UNCHANGED admitted
           ELSE /\ call_times' = [call_times EXCEPT ![c] = Append(pruned, now)]
                /\ admitted' = [admitted EXCEPT ![c] = Append(@, now)]
                /\ last' = rec("admitted")
    /\ UNCHANGED <<now, nonRateVars>>

\* Mutant of CheckNoChat: a request without chat id is rejected while the
\* window of some account is full.
CheckNoChat_Limited(r) ==
    /\ inflight[r] = NoChat
    /\ inflight' = [inflight EXCEPT ![r] = Idle]
    /\ last' = [NoCheck EXCEPT !.outcome =
                  IF \E c \in Chats : LimitReached(Prune(call_times[c], now))
                  THEN "429" ELSE "admitted"]
    /\ UNCHANGED <<now, call_times, admitted, nonRateVars>>

\* app.py:63-71: chat_id is None, the dependency returns at once ("let it pass").
CheckNoChat(r) ==
    /\ inflight[r] = NoChat
    /\ inflight' = [inflight EXCEPT ![r] = Idle]
    /\ last' = [NoCheck EXCEPT !.outcome = "admitted"]
    /\ UNCHANGED <<now, call_times, admitted, nonRateVars>>

\* Time passes.
Tick ==
    /\ now < MaxTime
    /\ now' = now + 1
    /\ UNCHANGED <<call_times, inflight, admitted, last, nonRateVars>>

RateInit ==
    /\ now = 0
    /\ call_times = [c \in Chats |-> <<>>]
    /\ inflight = [r \in Requests |-> Idle]
    /\ admitted = [c \in Chats |-> <<>>]
    /\ last = NoCheck

RateNext ==
    \/ \E r \in Requests, c \in Chats \cup {NoChat} : Arrive(r, c)
    \/ \E r \in Requests : Check(r)
    \/ \E r \in Requests : CheckNoChat(r)
    \/ Tick

\* C1: for every account and every instant T up to now, the admissions of
\* that account whose time lies in the window trailing T number at most
\* max_calls, whatever the interleaving of the requests in flight.
C1_WindowNeverExceeded ==
    \A c \in Chats : \A T \in 0..now : InWindow(c, T) <= max_calls

\* Two requests of one account were in flight together; one took the last
\* free slot and the other was then rejected in the same instant.
C1_Witness ==
    /\ last.chat \in Chats
    /\ last.outcome = "429"
    /\ last.inWindow = max_calls
    /\ Len(admitted[last.chat]) >= max_calls
    /\ admitted[last.chat][Len(admitted[last.chat])] = now

\* C2: a check made when exactly max_calls admissions of the account lie in
\* the trailing window is rejected; a check made when every earlier admission
\* of the account is older than time_window is admitted.
C2_RejectThenResume ==
    last.chat \in Chats =>
        /\ (last.inWindow = max_calls => last.outcome = "429")
        /\ (last.allElapsed => last.outcome = "admitted")

\* An account that had filled its window is admitted again after the window
\* has elapsed.
C2_Witness ==
    /\ last.chat \in Chats
    /\ last.allElapsed
    /\ last.outcome = "admitted"
    /\ Len(admitted[last.chat]) > max_calls

\* ------------------------------------------------------------------ ledger
\* tools_util.py:111-146  write_user upserts the row with the default totals.
WriteUser(us, c) ==
    [us EXCEPT ![c] = [exists |-> TRUE, total_transactions |-> 0, total_revenue |-> 0]]

\* tools_util.py:187-229  update_user_data: read the row (create it with
\* write_user when missing), add 1 and the amount, update the row.
UpdateUserData(us, c, amount) ==
    LET us1 == IF us[c].exists THEN us ELSE WriteUser(us, c)
    IN  [us1 EXCEPT ![c].total_transactions = @ + 1,
                    ![c].total_revenue = @ + amount]

\* tools_util.py:287  the parameters of write_transaction.
WriteTransactionParams ==
    {"chat_id", "item_name", "quantity", "price_per_unit", "tax_rate",
     "invoice_date", "invoice_number", "raw_message", "payment_method",
     "currency", "customer_name", "customer_details"}

\* tools_util.py:287  the parameters without a default.
WriteTransactionRequired ==
    {"chat_id", "item_name", "quantity", "price_per_unit", "tax_rate",
     "invoice_date", "invoice_number"}

\* Python binds a keyword call only if every keyword names a parameter and
\* every parameter without a default is given; otherwise the call raises
\* TypeError in the caller, before the body (and its try) is entered.
Binds(kwargs) ==
    /\ kwargs \subseteq WriteTransactionParams
    /\ WriteTransactionRequired \subseteq kwargs

\* tools_util.py:290-310  the names bound inside write_transaction when line
\* 312 is evaluated; the module tools_util defines no global total_price.
WriteTransactionNames == WriteTransactionParams \cup {"date_obj", "data", "response"}

\* tools_util.py:312  update_user_data(chat_id, total_price): the argument is
\* evaluated first, and an unbound name raises NameError.
RollupArgumentBound == "total_price" \in WriteTransactionNames

\* A timestamp: second tod of day d.
Stamp(d, tod) == d * DayLen + tod

\* The day of a timestamp: its first ten characters, 'YYYY-MM-DD'.
DayOf(ts) == ts \div DayLen

\* tools_util.py:292-310  the row write_transaction inserts: the date
\* "yyyy-MM-dd" is stored as datetime.fromisoformat(date).isoformat(), midnight
\* of that day.
Row(c, item, qty, price, date, inv) ==
    [chat_id |-> c, item_name |-> item, quantity |-> qty,
     price_per_unit |-> price, total_price_including_tax |-> price * qty,
     invoice_date |-> Stamp(date, 0), invoice_number |-> inv]

\* tools_util.py:290-317  the body of write_transaction, as the new values of
\* <<transactions, users, storeFailed>>.  storeUp: the insert reaches the store.
\*   insert raises        -> except: print, return None
\*   insert returns       -> the row is in the table; then line 312 either
\*                           raises NameError (except: return None) or calls
\*                           update_user_data.
WriteTransactionBody(c, item, qty, price, date, inv, storeUp) ==
    IF ~storeUp
    THEN <<transactions, users, TRUE>>
    ELSE <<Append(transactions, Row(c, item, qty, price, date, inv)),
           IF RollupArgumentBound
           THEN UpdateUserData(users, c, price * qty)
           ELSE users,
           storeFailed>>

\* generate_invoice builds INV_{chat_id}/{yyyy-mm}/{ddHHMM} from the clock
\* (tools_util.py:534-538): the chat id and the current minute.
InvoiceNumber(c, t) == <<c, t>>

InvoiceNumbers == {InvoiceNumber(c, t) : c \in Chats, t \in 0..1}

\* The invoice date "yyyy-MM-dd" a caller passes, as a day number.
Days == {0, 1}

\* A caller invokes the tool write_transaction with its own parameters
\* (tools_util.py:286-317), once per line item.
WriteTransaction ==
    /\ Len(wtCalls) < MaxRows
    /\ \E c \in Chats, item \in ItemNames, qty \in Quantities, price \in Prices,
          date \in Days, inv \in InvoiceNumbers, storeUp \in BOOLEAN :
          LET out == WriteTransactionBody(c, item, qty, price, date, inv, storeUp)
          IN  /\ transactions' = out[1]
              /\ users' = out[2]
              /\ storeFailed' = out[3]
              /\ wtGross' = IF storeUp THEN [wtGross EXCEPT ![c] = @ + price * qty]
                                       ELSE wtGross
              /\ wtCalls' = Append(wtCalls, <<c, inv>>)
    /\ UNCHANGED <<rateVars, otherVars, call, wizVars>>

\* The arguments of a handle_invoice_request invocation as Python values;
\* empty for an invocation with well-typed arguments.
NoArgs == [names |-> <<>>, quantities |-> <<>>, prices |-> <<>>,
           discounts |-> <<>>, tax |-> 0]

\* No handle_invoice_request invocation is in progress.
NoCall ==
    [pc |-> "idle", chat_id |-> NoChat, item_names |-> <<>>, quantities |-> <<>>,
     prices |-> <<>>, discounts |-> <<>>, date |-> 0, items |-> <<>>,
     generated |-> FALSE, doc |-> <<>>, invoice_number |-> <<>>, sent |-> FALSE,
     idx |-> 1, base |-> 0, attempted |-> <<>>, written |-> <<>>, failed |-> <<>>,
     raised |-> "none", result |-> "none", position |-> 0, args |-> NoArgs]

LedgerInit(us) ==
    /\ transactions = <<>>
    /\ users = us
    /\ wtCalls = <<>>
    /\ wtGross = [c \in Chats |-> 0]
    /\ storeFailed = FALSE

NoUsers == [c \in Chats |-> [exists |-> FALSE, total_transactions |-> 0, total_revenue |-> 0]]

\* The account rows that exist at the start: none, or some with zero totals.
InitialUsers ==
    {[c \in Chats |-> [exists |-> c \in S, total_transactions |-> 0, total_revenue |-> 0]] :
        S \in SUBSET Chats}

LedgerNext == WriteTransaction

\* --------------------------------------------------- handle_invoice_request
Min(a, b) == IF a <= b THEN a ELSE b

\* All sequences over S of length 0..n.
SeqsUpTo(S, n) == UNION {[1..k -> S] : k \in 0..n}

\* app.py:633  all([item_names, quantities, prices]): no list is empty.
AllPresent(names, qtys, prices) == names # <<>> /\ qtys # <<>> /\ prices # <<>>

\* Mutant of LengthsEqual: only the names and the quantities are compared.
LengthsEqual_NamesQuantitiesOnly(names, qtys, prices) == Len(names) = Len(qtys)

\* app.py:636  len(item_names) == len(quantities) == len(prices)
LengthsEqual(names, qtys, prices) == Len(names) = Len(qtys) /\ Len(qtys) = Len(prices)

\* A Python value passed as an argument: its type t and its value v.  A
\* float that is NaN has type "nan".
StrVal(s) == [t |-> "str", v |-> s]
IntVal(n) == [t |-> "int", v |-> n]
FloatVal(n) == [t |-> "float", v |-> n]
NaN == [t |-> "nan", v |-> 0]

\* The strings made of whitespace only.
Blank == {"", " "}

\* str.strip(), on strings that are blank or have no whitespace at their ends.
Strip(s) == IF s \in Blank THEN "" ELSE s

\* app.py:641  isinstance(name, str) and name.strip()
NameOk(n) == n.t = "str" /\ Strip(n.v) # ""

\* app.py:643  isinstance(qty, int) and not qty <= 0
QtyOk(q) == q.t = "int" /\ ~(q.v <= 0)

\* Mutant of PriceOk: the sign of the price is not tested.
PriceOk_AnySign(x) == x.t \in {"int", "float", "nan"}

\* app.py:645  isinstance(price, (int, float)) and not price <= 0; every
\* comparison with NaN is false.
PriceOk(x) == x.t \in {"int", "float", "nan"} /\ ~(x.t # "nan" /\ x.v <= 0)

\* app.py:640-646  the first check that fails for one item.
ArgCheck(n, q, x) ==
    IF ~NameOk(n) THEN "invalid_name"
    ELSE IF ~QtyOk(q) THEN "invalid_quantity"
    ELSE IF ~PriceOk(x) THEN "invalid_price"
    ELSE "ok"

\* app.py:640-646  the first check that fails, with the 0-based index i of its
\* item (the message names position i+1); "ok" when every item passes.
ItemCheck(name, qty, price) == ArgCheck(StrVal(name), IntVal(qty), IntVal(price))

FirstInvalid(names, qtys, prices) ==
    LET n == Min(Len(names), Min(Len(qtys), Len(prices)))
        bad == {i \in 1..n : ItemCheck(names[i], qtys[i], prices[i]) # "ok"}
    IN  IF bad = {} THEN 0 ELSE CHOOSE i \in bad : \A j \in bad : i <= j

\* app.py:631-646  the validation of handle_invoice_request: its early return.
Validate(names, qtys, prices) ==
    IF ~AllPresent(names, qtys, prices) THEN "missing"
    ELSE IF ~LengthsEqual(names, qtys, prices) THEN "unequal"
    ELSE LET i == FirstInvalid(names, qtys, prices)
         IN  IF i = 0 THEN "ok" ELSE ItemCheck(names[i], qtys[i], prices[i])

ItemErrors == {"invalid_name", "invalid_quantity", "invalid_price"}

ValidationErrors == {"missing", "unequal"} \cup ItemErrors

\* app.py:649-652  zip(item_names, quantities, prices, discounts) stops at the
\* shortest of the four lists.
ZipItems(names, qtys, prices, discs) ==
    [i \in 1..Min(Min(Len(names), Len(qtys)), Min(Len(prices), Len(discs))) |->
        [name |-> names[i], qty |-> qtys[i], rate |-> prices[i], discount |-> discs[i]]]

\* Mutant of HIRKwargs: the call without the keyword discount_per_unit.
HIRKwargs_NoDiscount ==
    {"chat_id", "item_name", "quantity", "price_per_unit", "tax_rate",
     "invoice_date", "invoice_number", "raw_message",
     "payment_method", "currency", "customer_name", "customer_details"}

\* app.py:693-707  the keywords handle_invoice_request passes to write_transaction.
HIRKwargs ==
    {"chat_id", "item_name", "quantity", "price_per_unit", "tax_rate",
     "invoice_date", "invoice_number", "discount_per_unit", "raw_message",
     "payment_method", "currency", "customer_name", "customer_details"}

\* app.py:710-712  except Exception: log, return the "error generating" text.
Raised(cl, where) == [cl EXCEPT !.pc = "done", !.result = "error", !.raised = where]

\* Mutant of SendRaised: the failure of send_document is swallowed (as the
\* os.remove failure at app.py:684-687 is) and the handler goes on.
SendRaised_Swallowed(cl) == [cl EXCEPT !.pc = "write", !.raised = "send"]

\* app.py:681  send_document raises: control passes to the except clause.
SendRaised(cl) == Raised(cl, "send")

\* Mutant of NextItem: the items are written last to first.
NextItem_Reversed(cl) == Len(cl.items) - cl.idx + 1

\* app.py:691  for itm in items: the item of the current iteration.
NextItem(cl) == cl.idx

\* The tool is invoked with a chat id, the four lists and a date
\* (app.py:593-652): validation, then the item list.
HIR_Call ==
    /\ call.pc = "idle"
    /\ Len(wtCalls) < MaxRows
    /\ \E c \in Chats, names \in SeqsUpTo(ItemNames, MaxItems),
          qtys \in SeqsUpTo(Quantities, MaxItems), prices \in SeqsUpTo(Prices, MaxItems),
          discs \in SeqsUpTo(Discounts, MaxItems), date \in Days :
          LET v == Validate(names, qtys, prices)
              cl == [NoCall EXCEPT !.chat_id = c, !.item_names = names,
                                   !.quantities = qtys, !.prices = prices,
                                   !.discounts = discs, !.date = date,
                                   !.base = Len(transactions)]
          IN  call' = IF v # "ok"
                      THEN [cl EXCEPT !.pc = "done", !.result = v,
                                      !.position = IF v \in ItemErrors
                                                   THEN FirstInvalid(names, qtys, prices)
                                                   ELSE 0]
                      ELSE [cl EXCEPT !.pc = "generate",
                                      !.items = ZipItems(names, qtys, prices, discs)]
    /\ UNCHANGED <<rateVars, otherVars, ledgerVars, wizVars>>

\* The values an item name, a quantity, a price, a discount and the sum of
\* the tax rates can be passed as.
ArgNames == {StrVal("tea"), StrVal(""), StrVal(" "), [t |-> "int", v |-> "5"]}
ArgQuantities == {IntVal(1), IntVal(0), FloatVal(1)}
ArgPrices == {IntVal(10), FloatVal(0), NaN, [t |-> "str", v |-> 10]}
ArgDiscounts == {0, -1}
ArgTaxRates == {0, -1}

\* The values of a list of arguments.
Values(args) == [i \in DOMAIN args |-> args[i].v]

\* The discounts of n items: every one 0, or the first one negative; or no
\* discounts at all.
ArgDiscountLists(n) ==
    {[i \in 1..n |-> IF i = 1 THEN d ELSE 0] : d \in ArgDiscounts} \cup {<<>>}

\* app.py:640-646  the position of the first item that fails a check, 0 if
\* none does.
ArgFirstInvalid(names, qtys, prices) ==
    LET bad == {i \in 1..Len(names) : ArgCheck(names[i], qtys[i], prices[i]) # "ok"}
    IN  IF bad = {} THEN 0 ELSE CHOOSE i \in bad : \A j \in bad : i <= j

\* app.py:593-652  the tool is invoked with three non-empty lists of equal
\* length holding values of any type and sign, a list of discounts and tax
\* rates: the checks of each item, then the item list.  Neither the
\* discounts nor the tax rates are looked at.
HIR_CallAny ==
    /\ call.pc = "idle"
    /\ Len(wtCalls) < MaxRows
    /\ \E c \in Chats, n \in 1..MaxItems :
       \E names \in [1..n -> ArgNames], qtys \in [1..n -> ArgQuantities],
          prices \in [1..n -> ArgPrices], discs \in ArgDiscountLists(n),
          tax \in ArgTaxRates :
          LET pos == ArgFirstInvalid(names, qtys, prices)
              cl == [NoCall EXCEPT !.chat_id = c, !.item_names = Values(names),
                                   !.quantities = Values(qtys), !.prices = Values(prices),
                                   !.discounts = discs,
                                   !.base = Len(transactions),
                                   !.args = [names |-> names, quantities |-> qtys,
                                             prices |-> prices, discounts |-> discs,
                                             tax |-> tax]]
          IN  call' = IF pos # 0
                      THEN [cl EXCEPT !.pc = "done", !.position = pos,
                                      !.result = ArgCheck(names[pos], qtys[pos], prices[pos])]
                      ELSE [cl EXCEPT !.pc = "generate",
                                      !.items = ZipItems(Values(names), Values(qtys),
                                                         Values(prices), discs)]
    /\ UNCHANGED <<rateVars, otherVars, ledgerVars, wizVars>>

\* app.py:655-678  generate_invoice returns (file, invoice number): the
\* document carries one line per element of items (tools_util.py:612-637).
HIR_Generate ==
    /\ call.pc = "generate"
    /\ call' = [call EXCEPT !.pc = "send", !.generated = TRUE,
                            !.doc = [i \in 1..Len(call.items) |-> call.items[i].name],
                            !.invoice_number = InvoiceNumber(call.chat_id, now)]
    /\ UNCHANGED <<rateVars, otherVars, ledgerVars, wizVars>>

\* generate_invoice raises (doc.build fails, the file cannot be written).
HIR_GenerateRaises ==
    /\ call.pc = "generate"
    /\ call' = Raised(call, "generate")
    /\ UNCHANGED <<rateVars, otherVars, ledgerVars, wizVars>>

\* app.py:681-687  send_document returns; the file is removed.
HIR_Send ==
    /\ call.pc = "send"
    /\ call' = [call EXCEPT !.pc = "write", !.sent = TRUE]
    /\ UNCHANGED <<rateVars, otherVars, ledgerVars, wizVars>>

\* app.py:681  send_document raises (open or requests.post fails).
HIR_SendRaises ==
    /\ call.pc = "send"
    /\ call' = SendRaised(call)
    /\ UNCHANGED <<rateVars, otherVars, ledgerVars, wizVars>>

\* app.py:691-707  one iteration of the loop: the call of write_transaction.
\* If the keywords do not bind, TypeError is raised here, in the handler's
\* try; otherwise the body of write_transaction runs and returns (it
\* swallows its own exceptions) and the handler ignores what it returns.
HIR_Write ==
    /\ call.pc = "write"
    /\ call.idx <= Len(call.items)
    /\ LET k == NextItem(call)
           itm == call.items[k]
       IN  IF ~Binds(HIRKwargs)
           THEN /\ call' = Raised([call EXCEPT !.attempted = Append(@, k)], "write")
                /\ UNCHANGED ledgerVars
           ELSE \E storeUp \in BOOLEAN :
                LET out == WriteTransactionBody(call.chat_id, itm.name, itm.qty, itm.rate,
                                                call.date, call.invoice_number, storeUp)
                IN  /\ transactions' = out[1]
                    /\ users' = out[2]
                    /\ storeFailed' = out[3]
                    /\ wtCalls' = Append(wtCalls, <<call.chat_id, call.invoice_number>>)
                    /\ wtGross' = IF storeUp
                                  THEN [wtGross EXCEPT ![call.chat_id] = @ + itm.rate * itm.qty]
                                  ELSE wtGross
                    /\ call' = [call EXCEPT
                                  !.idx = @ + 1,
                                  !.attempted = Append(@, k),
                                  !.written = IF storeUp THEN Append(@, k) ELSE @,
                                  !.failed = IF storeUp THEN @ ELSE Append(@, k)]
    /\ UNCHANGED <<rateVars, otherVars, wizVars>>

\* app.py:708  the loop is over: the success text is returned.
HIR_Finish ==
    /\ call.pc = "write"
    /\ call.idx > Len(call.items)
    /\ call' = [call EXCEPT !.pc = "done", !.result = "success"]
    /\ UNCHANGED <<rateVars, otherVars, ledgerVars, wizVars>>

\* The tool's result has been handed to the agent; the next invocation may start.
HIR_Return ==
    /\ call.pc = "done"
    /\ call' = NoCall
    /\ UNCHANGED <<rateVars, otherVars, ledgerVars, wizVars>>

InvoiceNext ==
    \/ HIR_Call
    \/ HIR_Generate
    \/ HIR_GenerateRaises
    \/ HIR_Send
    \/ HIR_SendRaises
    \/ HIR_Write
    \/ HIR_Finish
    \/ HIR_Return
    \/ Tick

ValidateNext ==
    \/ HIR_CallAny
    \/ HIR_Generate
    \/ HIR_GenerateRaises
    \/ HIR_Send
    \/ HIR_SendRaises
    \/ HIR_Write
    \/ HIR_Finish
    \/ HIR_Return

\* ------------------------------------------------- claims: invoice, ledger
Range(f) == {f[i] : i \in DOMAIN f}

\* The rows the ledger has gained since the invocation in progress began.
RowsOfCall == SubSeq(transactions, call.base + 1, Len(transactions))

\* The rows of the ledger that carry chat id c and invoice number inv.
RowsOf(c, inv) ==
    {i \in 1..Len(transactions) :
        transactions[i].chat_id = c /\ transactions[i].invoice_number = inv}

\* The write_transaction calls entered with chat id c.
CallsOf(c) == {i \in 1..Len(wtCalls) : wtCalls[i][1] = c}

\* C3: handle_invoice_request returns the success text only if every per-item
\* write_transaction call it made inserted its row; when a per-item write
\* failed, the result is a failure.
C3_SuccessOnlyIfAllWritten ==
    (call.pc = "done" /\ call.result = "success") =>
        /\ \A i \in 1..Len(call.attempted) : call.attempted[i] \in Range(call.written)
        /\ Len(RowsOfCall) = Len(call.attempted)

\* The document went out, a per-item write failed, and the caller was told
\* of a failure.
C3_Witness ==
    /\ call.pc = "done"
    /\ call.sent
    /\ call.attempted # <<>>
    /\ call.written = <<>>
    /\ call.result = "error"

\* C4: N write_transaction calls with one chat id and invoice number leave
\* exactly N rows carrying them, and an invoice that handle_invoice_request
\* has generated and sent, for four lists of equal length, has exactly one
\* row per input item (the store being available throughout).
C4_OneRowPerItem ==
    ~storeFailed =>
        /\ \A c \in Chats, inv \in InvoiceNumbers :
              Cardinality(RowsOf(c, inv)) =
              Cardinality({i \in 1..Len(wtCalls) : wtCalls[i] = <<c, inv>>})
        /\ (call.pc = "done" /\ call.sent /\ Len(call.discounts) = Len(call.item_names)) =>
              /\ Len(RowsOfCall) = Len(call.item_names)
              /\ \A i \in 1..Len(RowsOfCall) :
                    /\ RowsOfCall[i].chat_id = call.chat_id
                    /\ RowsOfCall[i].invoice_number = call.invoice_number

\* C5: after N write_transaction calls for an account whose inserts all
\* succeeded, the account row exists, total_transactions has grown by N and
\* total_revenue by the sum of price_per_unit * quantity (the totals start
\* at zero in SpecLedger).
C5_RollupFollowsWrites ==
    ~storeFailed =>
        \A c \in Chats :
            CallsOf(c) # {} =>
                /\ users[c].exists
                /\ users[c].total_transactions = Cardinality(CallsOf(c))
                /\ users[c].total_revenue = wtGross[c]

\* C6: with item_names, quantities and prices of unequal lengths the result
\* is a validation error and nothing is generated, sent or written.
C6_UnequalLengthsRejected ==
    (call.pc # "idle" /\ ~(Len(call.item_names) = Len(call.quantities)
                           /\ Len(call.quantities) = Len(call.prices))) =>
        /\ call.result \in ValidationErrors
        /\ call.pc = "done"
        /\ ~call.generated
        /\ ~call.sent
        /\ call.attempted = <<>>
        /\ RowsOfCall = <<>>

\* Three non-empty lists, the prices one longer or shorter than the others.
C6_Witness ==
    /\ call.pc = "done"
    /\ call.result = "unequal"
    /\ Len(call.item_names) = Len(call.quantities)
    /\ Len(call.prices) # Len(call.item_names)

\* C7: when discounts is shorter than item_names (and the request is
\* otherwise valid) no item is dropped: the document carries every input
\* item, and a success result comes with one row per input item.
C7_ShortDiscountsPadded ==
    (/\ call.pc # "idle"
     /\ call.result \notin ValidationErrors
     /\ Len(call.discounts) < Len(call.item_names)) =>
        /\ call.generated => Len(call.doc) = Len(call.item_names)
        /\ (call.pc = "done" /\ call.result = "success") =>
              Len(RowsOfCall) = Len(call.item_names)

\* C8: write_transaction is called only after generate_invoice and then
\* send_document have returned; when either raised, no call is made, no row
\* is written and the result is the error text.
C8_NoWriteBeforeDocument ==
    /\ call.attempted # <<>> => (call.generated /\ call.sent)
    /\ RowsOfCall # <<>> => (call.generated /\ call.sent)
    /\ call.raised \in {"generate", "send"} =>
          /\ call.pc = "done"
          /\ call.result = "error"
          /\ call.attempted = <<>>
          /\ RowsOfCall = <<>>

\* Rendering failed: the invocation is over with the error text and no row.
C8_Witness ==
    /\ call.raised = "generate"
    /\ call.pc = "done"
    /\ call.result = "error"
    /\ call.items # <<>>

\* C9: the per-item calls of one invocation are made in input order, each
\* item at most once: at every point the items attempted, and the rows the
\* invocation has written, are a prefix of the input item list.
C9_WritesArePrefix ==
    /\ Len(call.attempted) <= Len(call.items)
    /\ \A i \in 1..Len(call.attempted) : call.attempted[i] = i
    /\ Len(RowsOfCall) <= Len(call.item_names)
    /\ \A i \in 1..Len(RowsOfCall) : RowsOfCall[i].item_name = call.item_names[i]

\* The invocation failed at its first item with more items to come: the
\* second item was never attempted.
C9_Witness ==
    /\ call.pc = "done"
    /\ call.raised = "write"
    /\ Len(call.items) >= 2
    /\ call.attempted = <<1>>

\* ---------------------------------------------------------- deletion wizard
\* The rows of chat c: .eq("chat_id", str(chat_id)).
RowsOfChat(rows, c) == {i \in 1..Len(rows) : rows[i].chat_id = c}

\* The elements of a finite set of integers, largest first.
RECURSIVE SortDesc(_)
SortDesc(S) ==
    IF S = {} THEN <<>>
    ELSE LET m == CHOOSE x \in S : \A y \in S : y <= x
         IN  <<m>> \o SortDesc(S \ {m})

\* app.py:298-309  get_recent_dates: the invoice_date of the limit_ newest
\* rows of the chat (order by invoice_date desc, limit), made distinct, sorted
\* newest first and cut to limit_ again.  A date is among the limit_ newest
\* rows exactly if fewer than limit_ rows of the chat are newer than it.
GetRecentDates(rows, c, limit) ==
    LET mine == RowsOfChat(rows, c)
        top == {rows[i].invoice_date : i \in
                  {i \in mine :
                     Cardinality({j \in mine : rows[j].invoice_date > rows[i].invoice_date})
                       < limit}}
        sorted == SortDesc(top)
    IN  SubSeq(sorted, 1, Min(limit, Len(sorted)))

\* app.py:411  get_recent_dates(chat_id, 10)
RecentLimit == 10

\* app.py:351-356  day_range: ('<d> 00:00:00+00', '<d> 23:59:59+00') for the
\* day d of date_iso.
DayRange(date) == <<Stamp(DayOf(date), 0), Stamp(DayOf(date), DayLen - 1)>>

\* Mutant of GetInvoiceNumbers: the rows of every chat are searched.
GetInvoiceNumbers_AnyChat(rows, c, date) ==
    {rows[i].invoice_number : i \in
        {i \in 1..Len(rows) :
            /\ rows[i].invoice_date >= DayRange(date)[1]
            /\ rows[i].invoice_date < DayRange(date)[2]}}

\* app.py:358-369  get_invoice_numbers: the invoice numbers of the chat's rows
\* with start <= invoice_date < end.
GetInvoiceNumbers(rows, c, date) ==
    {rows[i].invoice_number : i \in
        {i \in RowsOfChat(rows, c) :
            /\ rows[i].invoice_date >= DayRange(date)[1]
            /\ rows[i].invoice_date < DayRange(date)[2]}}

\* Mutant of GetItemNames: the rows of every chat are searched.
GetItemNames_AnyChat(rows, c, inv) ==
    {rows[i].item_name : i \in
        {i \in 1..Len(rows) : rows[i].invoice_number = inv}}

\* app.py:371-380  get_item_names: the item names of the chat's rows of one invoice.
GetItemNames(rows, c, inv) ==
    {rows[i].item_name : i \in
        {i \in RowsOfChat(rows, c) : rows[i].invoice_number = inv}}

\* delete_transaction(chat_id, invoice_number, item_name), called at
\* app.py:449, is not among the source files: after the specification
\* (section 4.3, deleteTransaction) it removes the matching rows of the
\* account and returns whether any row was removed.
Matches(row, c, inv, item) ==
    row.chat_id = c /\ row.invoice_number = inv /\ row.item_name = item

DeleteTransaction(rows, c, inv, item) ==
    SelectSeq(rows, LAMBDA row : ~Matches(row, c, inv, item))

DeleteTransactionResult(rows, c, inv, item) ==
    \E i \in 1..Len(rows) : Matches(rows[i], c, inv, item)

\* No callback sequence is being followed.
NoFlow == [chat |-> NoChat, step |-> 0, day |-> 0, inv |-> <<>>, item |-> "",
           ok |-> FALSE, had |-> {}]

\* The <<invoice number, item name, day>> of every row of chat c.
Had(rows, c) ==
    {<<rows[i].invoice_number, rows[i].item_name, DayOf(rows[i].invoice_date)>> :
        i \in RowsOfChat(rows, c)}

\* The sequence followed goes on when chat c, at step n of it, sends the
\* callback that comes next; any other callback or message of the chat that
\* is being followed ends it; what other chats send leaves it alone.
Follow(c, n, next) ==
    flow' = IF flow.chat # c THEN flow
            ELSE IF flow.step = n THEN next
            ELSE NoFlow

\* The value a message text is formatted with, for a text that has none.
NoArg == <<>>

\* app.py:387-401  edit(): the wizard's message of chat c now shows text,
\* formatted with arg.
ShowArg(c, text, arg) ==
    screen' = [chat |-> c, how |-> "edit", text |-> text, arg |-> arg]

Show(c, text) == ShowArg(c, text, NoArg)

\* app.py:500-507  send_message(): a new message to chat c.
Send(c, text, arg) ==
    screen' = [chat |-> c, how |-> "send", text |-> text, arg |-> arg]

\* app.py:405-407  del_menu
CbMenu_Step(c) ==
    /\ Show(c, "Select an option:")
    /\ Follow(c, 0, NoFlow)
    /\ UNCHANGED <<ledgerVars, call, PENDING_SEARCH>>

\* CbMenu as a step of the wizard on its own: the rest of the state stays.
CbMenu(c) == CbMenu_Step(c) /\ UNCHANGED <<rateVars, otherVars>>

\* app.py:410-416  del_recent
CbRecent_Step(c) ==
    /\ LET dates == GetRecentDates(transactions, c, RecentLimit)
       IN  IF dates = <<>> THEN Show(c, "No recent invoices found.")
                           ELSE Show(c, "Select a date:")
    /\ flow' = [NoFlow EXCEPT !.chat = c, !.step = 1, !.had = Had(transactions, c)]
    /\ UNCHANGED <<ledgerVars, call, PENDING_SEARCH>>

\* CbRecent as a step of the wizard on its own: the rest of the state stays.
CbRecent(c) == CbRecent_Step(c) /\ UNCHANGED <<rateVars, otherVars>>

\* app.py:419-423  del_search
CbSearch_Step(c) ==
    /\ PENDING_SEARCH' = PENDING_SEARCH \cup {c}
    /\ Show(c, "Please send the exact invoice number")
    /\ Follow(c, 0, NoFlow)
    /\ UNCHANGED <<ledgerVars, call>>

\* CbSearch as a step of the wizard on its own: the rest of the state stays.
CbSearch(c) == CbSearch_Step(c) /\ UNCHANGED <<rateVars, otherVars>>

\* app.py:426-435  del_date|<date>
CbDate_Step(c, date) ==
    /\ IF GetInvoiceNumbers(transactions, c, date) = {}
       THEN Show(c, "No invoices found for that date.")
       ELSE ShowArg(c, "Select invoice number:", DayOf(date))
    /\ Follow(c, 1, [flow EXCEPT !.step = 2, !.day = DayOf(date)])
    /\ UNCHANGED <<ledgerVars, call, PENDING_SEARCH>>

\* CbDate as a step of the wizard on its own: the rest of the state stays.
CbDate(c, date) == CbDate_Step(c, date) /\ UNCHANGED <<rateVars, otherVars>>

\* app.py:437-445  del_inv|<date>|<invoice>
CbInv_Step(c, day, inv) ==
    /\ IF GetItemNames(transactions, c, inv) = {}
       THEN Show(c, "No items under that invoice.")
       ELSE ShowArg(c, "Select item to delete:", inv)
    /\ Follow(c, 2, IF flow.day = day THEN [flow EXCEPT !.step = 3, !.inv = inv]
                                      ELSE NoFlow)
    /\ UNCHANGED <<ledgerVars, call, PENDING_SEARCH>>

\* CbInv as a step of the wizard on its own: the rest of the state stays.
CbInv(c, day, inv) == CbInv_Step(c, day, inv) /\ UNCHANGED <<rateVars, otherVars>>

\* Mutant of DeleteReport: the report does not depend on what was deleted.
DeleteReport_Always(ok) == "Deleted."

\* app.py:450  "Deleted." if ok else "Nothing deleted."
DeleteReport(ok) == IF ok THEN "Deleted." ELSE "Nothing deleted."

\* app.py:447-452  del_item|<invoice>|<item>
CbItem_Step(c, inv, item) ==
    /\ LET ok == DeleteTransactionResult(transactions, c, inv, item)
       IN  /\ transactions' = DeleteTransaction(transactions, c, inv, item)
           /\ Show(c, DeleteReport(ok))
           /\ Follow(c, 3, IF flow.inv = inv
                           THEN [flow EXCEPT !.step = 4, !.item = item, !.ok = ok]
                           ELSE NoFlow)
    /\ UNCHANGED <<users, wtCalls, wtGross, storeFailed, call, PENDING_SEARCH>>

\* CbItem as a step of the wizard on its own: the rest of the state stays.
CbItem(c, inv, item) == CbItem_Step(c, inv, item) /\ UNCHANGED <<rateVars, otherVars>>

\* Mutant of CbCancel: cancelling drops the rows of the chat.
CbCancel_DropsRows(c) ==
    /\ Show(c, "Delete operation cancelled.")
    /\ Follow(c, 0, NoFlow)
    /\ transactions' = SelectSeq(transactions, LAMBDA row : row.chat_id # c)
    /\ UNCHANGED <<rateVars, otherVars, users, wtCalls, wtGross, storeFailed, call, PENDING_SEARCH>>

\* app.py:454-457  del_cancel|<level>
CbCancel_Step(c) ==
    /\ Show(c, "Delete operation cancelled.")
    /\ Follow(c, 0, NoFlow)
    /\ UNCHANGED <<ledgerVars, call, PENDING_SEARCH>>

\* CbCancel as a step of the wizard on its own: the rest of the state stays.
CbCancel(c) == CbCancel_Step(c) /\ UNCHANGED <<rateVars, otherVars>>

\* Mutant of CbUnknown_Step: an action no branch tests for is taken for
\* del_search.
CbUnknown_AsSearch(c) == CbSearch_Step(c)

\* app.py:382-457  an action no branch tests for: the handler falls off its end.
CbUnknown_Step(c) ==
    /\ Follow(c, 0, NoFlow)
    /\ UNCHANGED <<ledgerVars, call, PENDING_SEARCH, screen>>

\* CbUnknown as a step of the wizard on its own: the rest of the state stays.
CbUnknown(c) == CbUnknown_Step(c) /\ UNCHANGED <<rateVars, otherVars>>

\* app.py:473-474  handle_text_message for a chat that is not awaiting an
\* invoice number: return.
TextNotPending_Step(c) ==
    /\ c \notin PENDING_SEARCH
    /\ Follow(c, 0, NoFlow)
    /\ UNCHANGED <<ledgerVars, call, PENDING_SEARCH, screen>>

\* TextNotPending as a step of the wizard on its own: the rest of the state stays.
TextNotPending(c) == TextNotPending_Step(c) /\ UNCHANGED <<rateVars, otherVars>>

\* app.py:477-481  the text is "/cancel" or "cancel"
TextCancel_Step(c) ==
    /\ c \in PENDING_SEARCH
    /\ PENDING_SEARCH' = PENDING_SEARCH \ {c}
    /\ Send(c, "Search cancelled.", NoArg)
    /\ Follow(c, 0, NoFlow)
    /\ UNCHANGED <<ledgerVars, call>>

\* TextCancel as a step of the wizard on its own: the rest of the state stays.
TextCancel(c) == TextCancel_Step(c) /\ UNCHANGED <<rateVars, otherVars>>

\* app.py:484-495  any other text is the invoice number searched for
TextSearch_Step(c, inv) ==
    /\ c \in PENDING_SEARCH
    /\ IF GetItemNames(transactions, c, inv) = {}
       THEN /\ Send(c, "Invoice not found. Please try again or /cancel.", inv)
            /\ UNCHANGED PENDING_SEARCH
       ELSE /\ PENDING_SEARCH' = PENDING_SEARCH \ {c}
            /\ Send(c, "Select item to delete:", inv)
    /\ Follow(c, 0, NoFlow)
    /\ UNCHANGED <<ledgerVars, call>>

\* TextSearch as a step of the wizard on its own: the rest of the state stays.
TextSearch(c, inv) == TextSearch_Step(c, inv) /\ UNCHANGED <<rateVars, otherVars>>

\* The invoice numbers of the wizard's ledgers.
WizInvoices == {InvoiceNumber("101", 0), InvoiceNumber("101", 1)}

\* The rows a ledger can hold when the wizard starts: any item under any
\* invoice number on any day for chat 101, and the items of one invoice for
\* chat 102 (which may carry an invoice number chat 101 uses too).
WizRowUniverse ==
    {Row("101", item, 1, 10, d, inv) : item \in ItemNames, d \in Days, inv \in WizInvoices}
    \cup {Row("102", item, 1, 10, 0, InvoiceNumber("101", 0)) : item \in ItemNames}

\* The rows of S one after another, in some fixed order.
RECURSIVE SetToSeq(_)
SetToSeq(S) ==
    IF S = {} THEN <<>>
    ELSE LET x == CHOOSE y \in S : TRUE IN <<x>> \o SetToSeq(S \ {x})

WizRowSeq == SetToSeq(WizRowUniverse)

\* The ledgers of at most n rows, duplicates allowed, one for each multiset
\* of rows: no query of the wizard depends on the order the rows were
\* inserted in.
WizLedgers(n) ==
    UNION {{[i \in 1..k |-> WizRowSeq[f[i]]] :
                f \in {g \in [1..k -> 1..Len(WizRowSeq)] :
                          \A i \in 1..k, j \in 1..k : i < j => g[i] <= g[j]}} :
           k \in 0..n}

WizInit ==
    /\ PENDING_SEARCH = {}
    /\ screen = [chat |-> NoChat, how |-> "none", text |-> "none", arg |-> NoArg]
    /\ flow = NoFlow

\* SpecWizard starts from any ledger of at most WizRows rows.
InitWizard ==
    /\ RateInit
    /\ users = NoUsers
    /\ wtCalls = <<>>
    /\ wtGross = [c \in Chats |-> 0]
    /\ storeFailed = FALSE
    /\ transactions \in WizLedgers(WizRows)
    /\ call = NoCall
    /\ WizInit
    /\ OtherInit

WizNext ==
    \E c \in Chats :
        \/ CbMenu(c)
        \/ CbRecent(c)
        \/ CbSearch(c)
        \/ \E d \in Days : CbDate(c, Stamp(d, 0))
        \/ \E d \in Days, inv \in WizInvoices : CbInv(c, d, inv)
        \/ \E inv \in WizInvoices, item \in ItemNames : CbItem(c, inv, item)
        \/ CbCancel(c)
        \/ CbUnknown(c)
        \/ TextNotPending(c)
        \/ TextCancel(c)
        \/ \E inv \in WizInvoices : TextSearch(c, inv)

SpecWizard == InitWizard /\ [][WizNext]_vars

\* C10: when an account has issued del_recent, del_date|D, del_inv|D|I and
\* del_item|I|X in a row, the last step reports 'Deleted' if and only if,
\* before the sequence, a row of that account with item name X existed
\* under invoice number I with invoice date D.
C10_DeletedIffExistedOnDate ==
    flow.step = 4 =>
        /\ screen.chat = flow.chat
        /\ screen.text \in {"Deleted.", "Nothing deleted."}
        /\ (screen.text = "Deleted.") <=> (<<flow.inv, flow.item, flow.day>> \in flow.had)

\* The rows this step removes from the ledger.
RemovedRows == Range(transactions) \ Range(transactions')

\* The latest message of the wizard is the item list of invoice inv, shown
\* to chat c.
ItemListShown(c, inv) ==
    /\ screen.chat = c
    /\ screen.text = "Select item to delete:"
    /\ screen.arg = inv

\* C33: a row is deleted only from the item list: when the wizard's latest
\* message went to the account of the row, or no message has been shown at
\* all, that message is the item list of the invoice of the row (messages to
\* other accounts in between are left out of account).
C33_DeletedOnlyFromItemList ==
    [][\A row \in RemovedRows :
          screen.chat \in {row.chat_id, NoChat}
          => ItemListShown(row.chat_id, row.invoice_number)]_vars

\* What does hold: a del_item callback deletes by the ledger alone; a row
\* goes exactly in a step that reports "Deleted." to the account of the row.
DeletedByLedgerAlone ==
    [][\A row \in RemovedRows :
          /\ screen'.chat = row.chat_id
          /\ screen'.text = "Deleted."]_vars

\* The texts that end a run of the wizard: the report of del_item and the
\* acknowledgement of del_cancel.
TerminalTexts == {"Deleted.", "Nothing deleted.", "Delete operation cancelled."}

\* C11: when the wizard's latest message tells an account a terminal outcome
\* (the report of a del_item callback, or the acknowledgement of a del_cancel
\* callback), that account is not awaiting a free-text invoice number.
C11_TerminalClearsAwaiting ==
    screen.text \in TerminalTexts => screen.chat \notin PENDING_SEARCH

\* Some row of chat c carries invoice number inv.
HasInvoice(rows, c, inv) ==
    \E i \in 1..Len(rows) : rows[i].chat_id = c /\ rows[i].invoice_number = inv

\* The step sent chat c a new message showing text.
Sent(c, text) ==
    /\ screen'.chat = c
    /\ screen'.how = "send"
    /\ screen'.text = text

\* C12: after a del_search callback the account is awaiting an invoice
\* number; while it is awaiting, a text message is searched for as the
\* invoice number among the account's own rows; the account stays awaiting
\* after a key that matches none of its invoices, and it stops awaiting
\* exactly in the step that answers 'Search cancelled.' or shows the item list
\* of an invoice the account has.
C12_AwaitingUntilResolved ==
    [][\A c \in Chats :
          /\ (screen'.chat = c /\ screen'.text = "Please send the exact invoice number")
                => c \in PENDING_SEARCH'
          /\ c \in PENDING_SEARCH =>
                /\ (c \notin PENDING_SEARCH') <=>
                      \/ Sent(c, "Search cancelled.")
                      \/ /\ Sent(c, "Select item to delete:")
                         /\ HasInvoice(transactions, c, screen'.arg)
                /\ Sent(c, "Select item to delete:")
                      => HasInvoice(transactions, c, screen'.arg)
                /\ Sent(c, "Invoice not found. Please try again or /cancel.")
                      => /\ ~HasInvoice(transactions, c, screen'.arg)
                         /\ c \in PENDING_SEARCH'
      ]_vars

\* An awaiting account typed an invoice number it has (another account
\* having rows too), was shown the item list and awaits no longer.
C12_Witness ==
    /\ screen.how = "send"
    /\ screen.text = "Select item to delete:"
    /\ screen.chat \notin PENDING_SEARCH
    /\ HasInvoice(transactions, screen.chat, screen.arg)
    /\ \E i \in 1..Len(transactions) : transactions[i].chat_id # screen.chat

\* C13: the step in which a del_cancel callback is acknowledged leaves the
\* transaction rows exactly as they were, whatever the wizard showed before.
C13_CancelKeepsLedger ==
    [][(screen' # screen /\ screen'.text = "Delete operation cancelled.")
          => transactions' = transactions]_vars

\* del_cancel was acknowledged to a chat that has rows, in the middle of a
\* followed callback sequence of another chat.
C13_Witness ==
    /\ screen.text = "Delete operation cancelled."
    /\ RowsOfChat(transactions, screen.chat) # {}
    /\ flow.step > 0

\* C14: a del_item callback whose (invoice number, item name) matches no row
\* of the account reports 'Nothing deleted.' and leaves the rows as they
\* were; 'Deleted.' is reported only in a step that removes rows, and the
\* rows removed are rows of the account that sent the callback.
C14_NoMatchNothingDeleted ==
    [][/\ (screen' # screen /\ screen'.text = "Nothing deleted.")
            => transactions' = transactions
       /\ (screen' # screen /\ screen'.text = "Deleted.")
            => Len(transactions') < Len(transactions)
       /\ transactions' # transactions
            => /\ screen'.text = "Deleted."
               /\ transactions' =
                     SelectSeq(transactions,
                               LAMBDA row : row \in Range(transactions')
                                              \/ row.chat_id # screen'.chat)
               /\ Len(transactions') < Len(transactions)
       /\ (flow'.step = 4 /\ flow' # flow
              /\ ~\E d \in Days : <<flow'.inv, flow'.item, d>> \in flow'.had)
            => /\ screen'.text = "Nothing deleted."
               /\ transactions' = transactions
      ]_vars

\* A del_item callback that matched nothing was answered while the account
\* had rows.
C14_Witness ==
    /\ flow.step = 4
    /\ screen.text = "Nothing deleted."
    /\ screen.chat = flow.chat
    /\ RowsOfChat(transactions, flow.chat) # {}

\* The values of column col in the rows of chat c.
OwnValues(c, col) == {transactions[i][col] : i \in RowsOfChat(transactions, c)}

\* C35: a step that changes the ledger in answer to a del_item callback of
\* account A removes exactly the rows of A under one invoice number and one
\* item name and leaves every other row, in its place; and at every moment
\* the dates, invoice numbers and item names the wizard reads for an account
\* are those of rows of that account.
C35_DeleteAndReadsOwnRowsOnly ==
    [][/\ transactions' # transactions =>
             \E inv \in WizInvoices, item \in ItemNames :
                /\ \E i \in 1..Len(transactions) :
                      /\ transactions[i].chat_id = screen'.chat
                      /\ transactions[i].invoice_number = inv
                      /\ transactions[i].item_name = item
                /\ transactions' =
                      SelectSeq(transactions,
                                LAMBDA row : ~(/\ row.chat_id = screen'.chat
                                               /\ row.invoice_number = inv
                                               /\ row.item_name = item))
       /\ \A c \in Chats :
             /\ Range(GetRecentDates(transactions, c, RecentLimit))
                   \subseteq OwnValues(c, "invoice_date")
             /\ \A d \in Days :
                   GetInvoiceNumbers(transactions, c, Stamp(d, 0))
                      \subseteq OwnValues(c, "invoice_number")
             /\ \A inv \in WizInvoices :
                   GetItemNames(transactions, c, inv) \subseteq OwnValues(c, "item_name")
             /\ (screen'.chat = c /\ screen' # screen
                   /\ screen'.text = "Select invoice number:")
                   => \E i \in RowsOfChat(transactions, c) :
                         DayOf(transactions[i].invoice_date) = screen'.arg
      ]_vars

\* A followed del_item of one account removed its row while a row of
\* another account with the same invoice number and item name stays.
C35_Witness ==
    /\ flow.step = 4
    /\ flow.ok
    /\ screen.text = "Deleted."
    /\ \E i \in 1..Len(transactions) :
          /\ transactions[i].chat_id # flow.chat
          /\ transactions[i].invoice_number = flow.inv
          /\ transactions[i].item_name = flow.item

\* ------------------------------------------------------------ message log
\* message_date_utc is an int of epoch seconds (ts), or None (given is FALSE).
LogStamps == 0..MaxDate

\* tools_util.py:36-42  the date stored: that of message_date_utc if it is
\* truthy (neither None nor 0), else the reading of the clock.
MessageDate(given, ts, clock) == IF ~given \/ ts = 0 THEN clock ELSE ts

\* The rows of chat c in the log: .eq("chat_id", str(chat_id)).
LogRowsOf(rows, c) == {r \in rows : r.chat_id = c}

\* Mutant of Duplicate: the chat is not compared.
Duplicate_AnyChat(rows, c, d) == \E r \in rows : r.message_date = d

\* tools_util.py:45-56  the duplicate check: some row has this chat_id and
\* this message_date.
Duplicate(rows, c, d) == \E r \in LogRowsOf(rows, c) : r.message_date = d

\* The ids in use: those of the rows, and those a running call is about to
\* delete.  A new row gets an id that is none of them.
UsedIds == {r.id : r \in message_log} \cup UNION {logCall[w].old : w \in LogWorkers}

NewId == CHOOSE i \in 1..(Cardinality(UsedIds) + 1) : i \notin UsedIds

\* Number of rows ever inserted.
RECURSIVE SumOver(_, _)
SumOver(f, S) ==
    IF S = {} THEN 0
    ELSE LET x == CHOOSE y \in S : TRUE IN f[x] + SumOver(f, S \ {x})

InsertedTotal == SumOver([c \in Chats |-> SumOver(logInserted[c], LogDates)], Chats)

\* The calls past their duplicate check that have not inserted yet.
AboutToInsert == Cardinality({w \in LogWorkers : logCall[w].pc = "insert"})

\* The dates log_message can be about to store, over all its arguments and
\* clock readings.
MessageDates ==
    {MessageDate(given, ts, clock) :
        given \in BOOLEAN, ts \in LogStamps, clock \in LogDates}

\* tools_util.py:28-56  log_message is entered by a free worker and makes its
\* duplicate check.
LogCheck(w) ==
    /\ logCall[w].pc = "idle"
    /\ InsertedTotal + AboutToInsert < MaxLogRows
    /\ \E c \in Chats, d \in MessageDates :
          logCall' = [logCall EXCEPT ![w] =
                        [pc |-> IF Duplicate(message_log, c, d) THEN "duplicate" ELSE "insert",
                         chat_id |-> c, date |-> d, old |-> {}]]
    /\ logOverlapped' = (logOverlapped \/ \E v \in LogWorkers : logCall[v].pc # "idle")
    /\ UNCHANGED <<rateVars, ledgerVars, call, wizVars, hookVars, progress, message_log, logInserted>>

\* tools_util.py:58-59  if dup_resp.data: return
LogSkip(w) ==
    /\ logCall[w].pc = "duplicate"
    /\ logCall' = [logCall EXCEPT ![w] = NoLogCall]
    /\ UNCHANGED <<rateVars, ledgerVars, call, wizVars, hookVars, progress, message_log, logInserted, logOverlapped>>

\* tools_util.py:64-71  the insert
LogInsert(w) ==
    /\ logCall[w].pc = "insert"
    /\ LET c == logCall[w].chat_id
           d == logCall[w].date
       IN  /\ message_log' = message_log \cup
                   {[id |-> NewId, chat_id |-> c, message_date |-> d]}
           /\ logInserted' = [logInserted EXCEPT ![c][d] = @ + 1]
    /\ logCall' = [logCall EXCEPT ![w].pc = "select"]
    /\ UNCHANGED <<rateVars, ledgerVars, call, wizVars, hookVars, progress, logOverlapped>>

\* Mutant of Beyond: one row more is kept.
Beyond_KeepsOneMore(rows, c, n) ==
    {S \in SUBSET LogRowsOf(rows, c) :
        /\ Cardinality(LogRowsOf(rows, c) \ S) = Min(n + 1, Cardinality(LogRowsOf(rows, c)))
        /\ \A r \in S, k \in LogRowsOf(rows, c) \ S : r.message_date <= k.message_date}

\* tools_util.py:74-82  .order("message_date", desc=True).offset(n): the rows
\* of the chat after the first n in an order newest first.  Rows of equal
\* message_date come in either order, so there can be more than one answer.
Beyond(rows, c, n) ==
    {S \in SUBSET LogRowsOf(rows, c) :
        /\ Cardinality(LogRowsOf(rows, c) \ S) = Min(n, Cardinality(LogRowsOf(rows, c)))
        /\ \A r \in S, k \in LogRowsOf(rows, c) \ S : r.message_date <= k.message_date}

\* tools_util.py:73-84  the trim query and old_ids
LogSelect(w) ==
    /\ logCall[w].pc = "select"
    /\ \E S \in Beyond(message_log, logCall[w].chat_id, MAX_HISTORY) :
          logCall' = [logCall EXCEPT ![w].pc = "delete", ![w].old = {r.id : r \in S}]
    /\ UNCHANGED <<rateVars, ledgerVars, call, wizVars, hookVars, progress, message_log, logInserted, logOverlapped>>

\* tools_util.py:85-86  if old_ids: delete().in_("id", old_ids); return
LogDelete(w) ==
    /\ logCall[w].pc = "delete"
    /\ message_log' = {r \in message_log : r.id \notin logCall[w].old}
    /\ logCall' = [logCall EXCEPT ![w] = NoLogCall]
    /\ UNCHANGED <<rateVars, ledgerVars, call, wizVars, hookVars, progress, logInserted, logOverlapped>>

LogNext ==
    \E w \in LogWorkers :
        \/ LogCheck(w)
        \/ LogSkip(w)
        \/ LogInsert(w)
        \/ LogSelect(w)
        \/ LogDelete(w)

InitLog ==
    /\ RateInit
    /\ LedgerInit(NoUsers)
    /\ call = NoCall
    /\ WizInit
    /\ OtherInit

SpecLog == InitLog /\ [][LogNext]_vars

\* C15: a log_message call whose (chat_id, message date) already has a row in
\* the message log when the call looks for it is a no-op: the call is found
\* to be a duplicate exactly if such a row exists, and it then returns
\* without having inserted, deleted or modified any row.
C15_DuplicateIsNoOp ==
    [][\A w \in LogWorkers :
          /\ (logCall[w].pc = "idle" /\ logCall'[w].pc # "idle")
                => /\ message_log' = message_log
                   /\ (logCall'[w].pc = "duplicate") <=>
                         \E r \in message_log :
                            /\ r.chat_id = logCall'[w].chat_id
                            /\ r.message_date = logCall'[w].date
          /\ (logCall[w].pc = "duplicate" /\ logCall'[w] # logCall[w])
                => /\ message_log' = message_log
                   /\ logInserted' = logInserted
                   /\ logCall'[w] = NoLogCall
      ]_vars

\* A call has found its pair in the log while the other chat has a row too.
C15_Witness ==
    \E w \in LogWorkers :
        /\ logCall[w].pc = "duplicate"
        /\ \E r \in message_log : r.chat_id # logCall[w].chat_id

\* Rows of chat c with message date d that the log holds.
Retained(c, d) ==
    Cardinality({r \in message_log : r.chat_id = c /\ r.message_date = d})

\* Rows with message date d among the MAX_HISTORY newest of all the rows ever
\* inserted for chat c.
Newest(c, d) ==
    LET newer == SumOver(logInserted[c], {e \in LogDates : e > d})
    IN  IF newer >= MAX_HISTORY THEN 0
        ELSE Min(logInserted[c][d], MAX_HISTORY - newer)

\* C16: when every log_message call has completed, every chat has at most
\* MAX_HISTORY rows in the message log, and the rows retained are the rows of
\* greatest message date among all rows ever inserted for the chat.
C16_NewestRetained ==
    (\A w \in LogWorkers : logCall[w].pc = "idle") =>
        \A c \in Chats :
            /\ Cardinality(LogRowsOf(message_log, c)) <= MAX_HISTORY
            /\ \A d \in LogDates : Retained(c, d) = Newest(c, d)

\* What holds of the retained rows: the bound on their number always, and
\* their being the newest as long as no two calls have run at the same time.
NewestRetainedWithoutOverlap ==
    (\A w \in LogWorkers : logCall[w].pc = "idle") =>
        \A c \in Chats :
            /\ Cardinality(LogRowsOf(message_log, c)) <= MAX_HISTORY
            /\ ~logOverlapped => \A d \in LogDates : Retained(c, d) = Newest(c, d)

\* C36: when every log_message call has completed, also calls with the same
\* (chat_id, message date) that ran at the same time, the message log holds
\* at most one row of each chat with each message date.
C36_OneRowPerKey ==
    (\A w \in LogWorkers : logCall[w].pc = "idle") =>
        \A c \in Chats, d \in LogDates : Retained(c, d) <= 1

\* What does hold: one row for each key as long as no two calls have run at
\* the same time.
OneRowPerKeyWithoutOverlap ==
    ~logOverlapped => \A c \in Chats, d \in LogDates : Retained(c, d) <= 1

\* ------------------------------------------------------- run_with_progress
\* How the awaited operation can end: Runner.run returns, it raises, or the
\* wait_for around it times out and raises TimeoutError.
CoroOutcomes == {"return", "exception", "timeout"}

\* app.py:829  run_with_progress is entered and awaits the acknowledgement.
RWP_Call(c) ==
    /\ progress[c].pc \in {"idle", "returned", "raised"}
    /\ progress' = [progress EXCEPT ![c] = [NoProgress EXCEPT !.pc = "ack"]]
    /\ UNCHANGED <<rateVars, ledgerVars, call, wizVars, hookVars, logVars>>

\* app.py:829-832  the acknowledgement is sent; stop_evt and the spinner task
\* are created, and the operation is awaited.
RWP_AckSent(c) ==
    /\ progress[c].pc = "ack"
    /\ progress' = [progress EXCEPT ![c].pc = "await", ![c].spinner = "loop"]
    /\ UNCHANGED <<rateVars, ledgerVars, call, wizVars, hookVars, logVars>>

\* app.py:829, 545-569  send_telegram_message raises (it catches only
\* requests' exceptions, not those of httpx): no spinner was created.
RWP_AckRaises(c) ==
    /\ progress[c].pc = "ack"
    /\ progress' = [progress EXCEPT ![c].pc = "raised", ![c].outcome = "ack_error"]
    /\ UNCHANGED <<rateVars, ledgerVars, call, wizVars, hookVars, logVars>>

\* app.py:834-837  the operation ends, and the finally block sets stop_evt
\* before its first await.
RWP_CoroEnds(c) ==
    /\ progress[c].pc = "await"
    /\ \E o \in CoroOutcomes :
          progress' = [progress EXCEPT ![c].pc = "join", ![c].outcome = o,
                                       ![c].stop_evt = TRUE]
    /\ UNCHANGED <<rateVars, ledgerVars, call, wizVars, hookVars, logVars>>

\* Mutant of RWP_Join: the spinner is not awaited.
RWP_Join_NoAwait(c) ==
    /\ progress[c].pc = "join"
    /\ progress' = [progress EXCEPT ![c].pc =
                        IF progress[c].outcome = "return" THEN "returned" ELSE "raised"]
    /\ UNCHANGED <<rateVars, ledgerVars, call, wizVars, hookVars, logVars>>

\* app.py:838-843  await spinner completes once the spinner task has ended;
\* then the result is returned, or the exception goes on to the caller.
RWP_Join(c) ==
    /\ progress[c].pc = "join"
    /\ progress[c].spinner = "done"
    /\ progress' = [progress EXCEPT ![c].pc =
                        IF progress[c].outcome = "return" THEN "returned" ELSE "raised"]
    /\ UNCHANGED <<rateVars, ledgerVars, call, wizVars, hookVars, logVars>>

\* app.py:818  while not stop_evt.is_set()
Spin_Check(c) ==
    /\ progress[c].spinner = "loop"
    /\ progress' = [progress EXCEPT ![c].spinner =
                        IF progress[c].stop_evt THEN "done" ELSE "sending"]
    /\ UNCHANGED <<rateVars, ledgerVars, call, wizVars, hookVars, logVars>>

\* app.py:819-820  send_chat_action completes; the spinner sleeps.
Spin_Sent(c) ==
    /\ progress[c].spinner = "sending"
    /\ progress' = [progress EXCEPT ![c].spinner = "sleeping", ![c].typed = TRUE]
    /\ UNCHANGED <<rateVars, ledgerVars, call, wizVars, hookVars, logVars>>

\* app.py:817-822  send_chat_action raises: the except clause around the loop
\* logs a warning and the task ends.
Spin_SendRaises(c) ==
    /\ progress[c].spinner = "sending"
    /\ progress' = [progress EXCEPT ![c].spinner = "done"]
    /\ UNCHANGED <<rateVars, ledgerVars, call, wizVars, hookVars, logVars>>

\* app.py:820  asyncio.sleep(every) is over.
Spin_Wake(c) ==
    /\ progress[c].spinner = "sleeping"
    /\ progress' = [progress EXCEPT ![c].spinner = "loop"]
    /\ UNCHANGED <<rateVars, ledgerVars, call, wizVars, hookVars, logVars>>

ProgressNext ==
    \E c \in Chats :
        \/ RWP_Call(c)
        \/ RWP_AckSent(c)
        \/ RWP_AckRaises(c)
        \/ RWP_CoroEnds(c)
        \/ RWP_Join(c)
        \/ Spin_Check(c)
        \/ Spin_Sent(c)
        \/ Spin_SendRaises(c)
        \/ Spin_Wake(c)

InitProgress ==
    /\ RateInit
    /\ LedgerInit(NoUsers)
    /\ call = NoCall
    /\ WizInit
    /\ OtherInit

SpecProgress == InitProgress /\ [][ProgressNext]_vars

\* C17: whenever run_with_progress has returned or has let an error go on to
\* its caller, after the operation returned, raised or timed out, stop_evt is
\* set and the typing_spinner task has ended; if it left before creating the
\* task there is no task.  While the call is not over, the task is awaited
\* only with stop_evt set.
C17_SpinnerEndsWithCall ==
    \A c \in Chats :
        /\ progress[c].pc \in {"returned", "raised"} =>
              IF progress[c].outcome \in CoroOutcomes
              THEN progress[c].stop_evt /\ progress[c].spinner = "done"
              ELSE progress[c].spinner = "none"
        /\ progress[c].pc = "join" => progress[c].stop_evt
        /\ progress[c].pc = "returned" <=>
              (progress[c].outcome = "return" /\ progress[c].pc \notin {"await", "join"})

\* The wait timed out after the spinner had been typing, and the error has
\* gone on to the caller, while the call for another chat is still awaited.
C17_Witness ==
    \E c \in Chats, o \in Chats :
        /\ progress[c].pc = "raised"
        /\ progress[c].outcome = "timeout"
        /\ progress[c].typed
        /\ progress[o].pc = "await"

\* The row carries an invoice number that generate_invoice builds for the
\* row's own account.
GeneratedNumber(row) ==
    \E t \in 0..1 : row.invoice_number = InvoiceNumber(row.chat_id, t)

\* C18: any two ledger rows that share an invoice number generated by
\* generate_invoice have the same chat_id and the same invoice_date.
C18_InvoiceNumberOneAccountOneDate ==
    \A i \in 1..Len(transactions), j \in 1..Len(transactions) :
        (/\ transactions[i].invoice_number = transactions[j].invoice_number
         /\ GeneratedNumber(transactions[i])
         /\ GeneratedNumber(transactions[j]))
        => /\ transactions[i].chat_id = transactions[j].chat_id
           /\ transactions[i].invoice_date = transactions[j].invoice_date

\* An invocation with arguments of any type is in progress or just over.
AnyCall == call.pc # "idle" /\ call.args # NoArgs

\* A valid name (a string with something other than whitespace in it), a
\* valid quantity (a positive integer) and a valid price (a positive number).
ValidName(n) == n.t = "str" /\ n.v \notin Blank
ValidQuantity(q) == q.t = "int" /\ q.v > 0
ValidPrice(x) == x.t \in {"int", "float"} /\ x.v > 0

\* The positions of the items with an invalid name, quantity or price.
Offending(args) ==
    {i \in 1..Len(args.names) :
        ~(/\ ValidName(args.names[i])
          /\ ValidQuantity(args.quantities[i])
          /\ ValidPrice(args.prices[i]))}

\* The result names position i and a field that is invalid there.
Identifies(i) ==
    /\ call.position = i
    /\ \/ call.result = "invalid_name" /\ ~ValidName(call.args.names[i])
       \/ call.result = "invalid_quantity" /\ ~ValidQuantity(call.args.quantities[i])
       \/ call.result = "invalid_price" /\ ~ValidPrice(call.args.prices[i])

Rejected ==
    /\ call.pc = "done"
    /\ call.result \in ValidationErrors
    /\ ~call.generated
    /\ ~call.sent
    /\ call.attempted = <<>>
    /\ RowsOfCall = <<>>

\* C19: an invocation with an item whose name is empty or not a string, whose
\* quantity is not a positive integer or whose price is not a positive number
\* returns a validation error that names the position of such an item and a
\* field that is invalid there, and nothing is generated, sent or written.
C19_InvalidItemRejected ==
    (AnyCall /\ Offending(call.args) # {}) =>
        /\ Rejected
        /\ \E i \in Offending(call.args) : Identifies(i)

\* What holds of the item checks: the claim for every invocation none of
\* whose prices is NaN, the position named being the first offending one.
InvalidItemRejectedUnlessNaN ==
    (/\ AnyCall
     /\ Offending(call.args) # {}
     /\ \A i \in 1..Len(call.args.prices) : call.args.prices[i] # NaN) =>
        /\ Rejected
        /\ Identifies(CHOOSE i \in Offending(call.args) :
                         \A j \in Offending(call.args) : i <= j)

\* C20: an invocation with a negative sum of tax rates or a negative discount
\* ends in a validation error, and nothing is generated, sent or written for
\* it.
C20_NegativeTaxOrDiscountRejected ==
    (/\ AnyCall
     /\ \/ call.args.tax < 0
        \/ \E i \in 1..Len(call.args.discounts) : call.args.discounts[i] < 0) =>
        /\ ~call.generated
        /\ ~call.sent
        /\ call.attempted = <<>>
        /\ call.pc = "done" => call.result \in ValidationErrors

\* --------------------------------------------------------- telegram_webhook
\* The updates Telegram posts, by the keys telegram_webhook tests for
\* (app.py:747-768): a callback_query; a message with a text; a message with
\* a contact; any other message (a photo, a sticker); an update with neither
\* a callback_query nor a message.
UpdateKinds == {"callback_query", "text", "contact", "other", "empty"}

\* The updates that have a top-level message.
MessageKinds == {"text", "contact", "other"}

\* app.py:63-67  the chat id _dependency reads from the body:
\* body["message"]["chat"]["id"] if "message" in body else None.
LimiterChat(u) == IF u.kind \in MessageKinds THEN u.chat ELSE NoChat

\* A request arrives with an update of the kind given from chat c (an update
\* without message and callback_query has no chat); known: the data of a
\* callback_query start with one of the actions handle_delete_callback tests
\* for.  FastAPI starts _dependency, which suspends at
\* `body = await request.json()` (app.py:62).
WH_Arrive(r, kind, c, known) ==
    /\ webhook[r].pc \in {"idle", "done"}
    /\ (kind = "empty") = (c = NoChat)
    /\ known => kind = "callback_query"
    /\ webhook' = [webhook EXCEPT ![r] =
                     [NoUpdate EXCEPT !.kind = kind, !.chat = c, !.known = known,
                                      !.pc = "dependency"]]
    /\ UNCHANGED <<rateVars, ledgerVars, call, wizVars, logVars, progress, phone, eval>>

\* The request has been answered with response; ran: telegram_webhook was
\* called for it.
Answered(response, ran) ==
    [NoUpdate EXCEPT !.pc = "done", !.response = response, !.ran = ran]

\* app.py:741-783  telegram_webhook up to its first suspension
\* (request.json() returns the body _dependency has read): a callback_query
\* and a message with a text are handed to a new task and the request is
\* answered "OK"; an update without message is answered "OK"; a contact and
\* any other message go on in the handler.
Handler(u) ==
    CASE u.kind = "callback_query" ->
            [u EXCEPT !.pc = "callback_task", !.ran = TRUE, !.response = "OK"]
      [] u.kind = "text" ->
            [u EXCEPT !.pc = "text_task", !.ran = TRUE, !.response = "OK"]
      [] u.kind = "contact" -> [u EXCEPT !.pc = "contact", !.ran = TRUE]
      [] u.kind = "other" -> [u EXCEPT !.pc = "gather", !.ran = TRUE]
      [] OTHER -> Answered("OK", TRUE)

\* Mutant of Rejected429: the rejection is logged and the request goes on.
Rejected429_GoesOn(u) == Handler(u)

\* app.py:77-82  raise HTTPException(status_code=429, detail="Rate limit
\* exceeded"): FastAPI answers 429 and does not call telegram_webhook.
Rejected429(u) == Answered("429", FALSE)

\* app.py:61-83, 741-783  _dependency from its first line after the await to
\* its end and then telegram_webhook up to its first suspension, one step of
\* the event loop: a body without chat id passes; for the others the window
\* is pruned and the request is rejected or its time appended.
WH_Enter(r) ==
    /\ webhook[r].pc = "dependency"
    /\ LET c == LimiterChat(webhook[r])
       IN  IF c = NoChat
           THEN /\ webhook' = [webhook EXCEPT ![r] = Handler(@)]
                /\ UNCHANGED call_times
           ELSE LET pruned == Prune(call_times[c], now)
                IN  IF LimitReached(pruned)
                    THEN /\ call_times' = [call_times EXCEPT ![c] = pruned]
                         /\ webhook' = [webhook EXCEPT ![r] = Rejected429(@)]
                    ELSE /\ call_times' = [call_times EXCEPT ![c] = Append(pruned, now)]
                         /\ webhook' = [webhook EXCEPT ![r] = Handler(@)]
    /\ UNCHANGED <<now, inflight, admitted, last, ledgerVars, call, wizVars,
                   logVars, progress, phone, eval>>

\* The handler of the request has come to its end.
TaskDone(r) == webhook' = [webhook EXCEPT ![r] = Answered("OK", TRUE)]

\* The task of the request has come to its end: it returned or it raised.
TaskEnds(r, how) == webhook' = [webhook EXCEPT ![r].pc = "done", ![r].task = how]

\* app.py:427, 438, 448  parts[0], `date_short, inv = parts` and
\* `inv, item = parts` raise when the data of del_date, del_inv or del_item
\* do not split into that many parts: the task ends there.
CbMalformed_Step(c) ==
    /\ Follow(c, 0, NoFlow)
    /\ UNCHANGED <<ledgerVars, call, PENDING_SEARCH, screen>>

\* app.py:748  asyncio.create_task(handle_delete_callback(...)): the task
\* runs the branch of the action its callback data start with.
WH_CallbackTask(r) ==
    /\ webhook[r].pc = "callback_task"
    /\ LET c == webhook[r].chat
       IN  IF webhook[r].known
           THEN \/ CbMenu_Step(c) /\ TaskEnds(r, "returned")
                \/ CbRecent_Step(c) /\ TaskEnds(r, "returned")
                \/ CbSearch_Step(c) /\ TaskEnds(r, "returned")
                \/ \E d \in Days : CbDate_Step(c, Stamp(d, 0)) /\ TaskEnds(r, "returned")
                \/ \E d \in Days, inv \in WizInvoices :
                      CbInv_Step(c, d, inv) /\ TaskEnds(r, "returned")
                \/ \E inv \in WizInvoices, item \in ItemNames :
                      CbItem_Step(c, inv, item) /\ TaskEnds(r, "returned")
                \/ CbCancel_Step(c) /\ TaskEnds(r, "returned")
                \/ CbMalformed_Step(c) /\ TaskEnds(r, "raised")
           ELSE CbUnknown_Step(c) /\ TaskEnds(r, "returned")
    /\ UNCHANGED <<rateVars, logVars, progress, phone, eval>>

\* app.py:753  asyncio.create_task(handle_text_message(...))
WH_TextTask(r) ==
    /\ webhook[r].pc = "text_task"
    /\ LET c == webhook[r].chat
       IN  \/ TextNotPending_Step(c) /\ TaskEnds(r, "returned")
           \/ TextCancel_Step(c) /\ TaskEnds(r, "returned")
           \/ \E inv \in WizInvoices : TextSearch_Step(c, inv) /\ TaskEnds(r, "returned")
    /\ UNCHANGED <<rateVars, logVars, progress, phone, eval>>

\* update_user_field(chat_id, field, value), called at app.py:769, is not
\* among the source files: after the specification (section 3, Account:
\* "phone number (optional until captured)") it stores the phone number on
\* the account row of the chat.
UpdateUserField(ph, us, c) == IF us[c].exists THEN ph \cup {c} ELSE ph

\* app.py:766-772  a contact: store its phone number, remove the keyboard,
\* answer "OK".
WH_Contact(r) ==
    /\ webhook[r].pc = "contact"
    /\ phone' = UpdateUserField(phone, users, webhook[r].chat)
    /\ TaskDone(r)
    /\ UNCHANGED <<rateVars, ledgerVars, call, wizVars, logVars, progress, eval>>

\* tools_util.py:155-169  read_user: the row, or None when there is none or
\* the store raises.
ReadUser(us, c, storeUp) == storeUp /\ us[c].exists

\* app.py:844-860, 935-948  the reads are gathered; without a phone number in
\* the record the handler asks for it and answers "OK".
WH_Gather(r) ==
    /\ webhook[r].pc = "gather"
    /\ \E storeUp \in BOOLEAN :
          LET c == webhook[r].chat
              user_record == ReadUser(users, c, storeUp)
              phone_in_db == user_record /\ c \in phone
          IN  webhook' = [webhook EXCEPT ![r] =
                 IF phone_in_db
                 THEN [@ EXCEPT !.pc = "touch", !.user_record = user_record]
                 ELSE Answered("OK", TRUE)]
    /\ UNCHANGED <<rateVars, ledgerVars, call, wizVars, logVars, progress, phone, eval>>

\* tools_util.py:173-185  update_last_used_date refreshes last_updated and
\* the user name of the row; the columns of the model stay.
UpdateLastUsedDate(us, c) == us

\* app.py:950-955  if not user_record: write_user else update_last_used_date
WH_Touch(r) ==
    /\ webhook[r].pc = "touch"
    /\ users' = IF ~webhook[r].user_record
                THEN WriteUser(users, webhook[r].chat)
                ELSE UpdateLastUsedDate(users, webhook[r].chat)
    /\ webhook' = [webhook EXCEPT ![r].pc = "log"]
    /\ UNCHANGED <<rateVars, transactions, wtCalls, wtGross, storeFailed, call,
                   wizVars, logVars, progress, phone, eval>>

\* tools_util.py:28-86  the tables log_message can leave when no other call
\* runs between its queries: the table as it was when (c, d) is a duplicate,
\* else the table with the new row and without the rows beyond MAX_HISTORY.
LogMessage(rows, c, d) ==
    IF Duplicate(rows, c, d) THEN {rows}
    ELSE LET ins == rows \cup {[id |-> NewId, chat_id |-> c, message_date |-> d]}
         IN  {ins \ S : S \in Beyond(ins, c, MAX_HISTORY)}

\* The dates of the messages SpecWebhook logs: message.date of the update, or
\* the reading of the clock for a reply.
HookDates == {1, MaxDate}

\* app.py:958  await run_blocking(log_message, chat_id, text, message_ts)
WH_LogUser(r) ==
    /\ webhook[r].pc = "log"
    /\ \E d \in HookDates : message_log' \in LogMessage(message_log, webhook[r].chat, d)
    /\ webhook' = [webhook EXCEPT ![r].pc = "agent"]
    /\ UNCHANGED <<rateVars, ledgerVars, call, wizVars, logCall, logInserted,
                   logOverlapped, progress, phone, eval>>

\* app.py:1003-1014, 1031-1033  run_with_progress(Runner.run(...)) returns the
\* agent's response, or raises (the agent fails or 180 s pass): the handler
\* answers 500.
WH_Agent(r) ==
    /\ webhook[r].pc = "agent"
    /\ \E outcome \in CoroOutcomes :
          webhook' = [webhook EXCEPT ![r] =
             IF outcome = "return" THEN [@ EXCEPT !.pc = "reply"]
                                   ELSE Answered("500", TRUE)]
    /\ UNCHANGED <<rateVars, ledgerVars, call, wizVars, logVars, progress, phone, eval>>

\* app.py:1016-1029  the reply is sent and logged with the reading of the
\* clock; the handler answers "OK".
WH_Reply(r) ==
    /\ webhook[r].pc = "reply"
    /\ \E d \in HookDates : message_log' \in LogMessage(message_log, webhook[r].chat, d)
    /\ TaskDone(r)
    /\ UNCHANGED <<rateVars, ledgerVars, call, wizVars, logCall, logInserted,
                   logOverlapped, progress, phone, eval>>

\* The chats whose updates SpecWebhook follows.
HookChats == {"101"}

\* All the requests of a run of SpecWebhook come within one second: what the
\* passing of time does to the windows is SpecRateLimiter's.
WebhookNext ==
    \/ \E r \in Requests, kind \in UpdateKinds, c \in HookChats \cup {NoChat},
          known \in BOOLEAN :
          WH_Arrive(r, kind, c, known)
    \/ \E r \in Requests : WH_Enter(r)
    \/ \E r \in Requests : WH_CallbackTask(r)
    \/ \E r \in Requests : WH_TextTask(r)
    \/ \E r \in Requests : WH_Contact(r)
    \/ \E r \in Requests : WH_Gather(r)
    \/ \E r \in Requests : WH_Touch(r)
    \/ \E r \in Requests : WH_LogUser(r)
    \/ \E r \in Requests : WH_Agent(r)
    \/ \E r \in Requests : WH_Reply(r)

\* The webhook starts with or without an account row for chat 101, the row
\* with or without a phone number, and with one ledger row for each chat.
InitWebhook ==
    /\ RateInit
    /\ transactions = <<Row("101", "tea", 1, 10, 0, InvoiceNumber("101", 0)),
                        Row("102", "tea", 1, 10, 0, InvoiceNumber("101", 0))>>
    /\ users \in {NoUsers, [NoUsers EXCEPT !["101"].exists = TRUE]}
    /\ wtCalls = <<>>
    /\ wtGross = [c \in Chats |-> 0]
    /\ storeFailed = FALSE
    /\ call = NoCall
    /\ WizInit
    /\ LogInit
    /\ progress = [c \in Chats |-> NoProgress]
    /\ webhook = [r \in Requests |-> NoUpdate]
    /\ phone \in SUBSET {c \in Chats : users[c].exists}
    /\ eval = NoEval

SpecWebhook == InitWebhook /\ [][WebhookNext]_vars

\* The entries of the window of chat c that are younger than time_window.
InCallWindow(c) ==
    Cardinality({i \in 1..Len(call_times[c]) : now - call_times[c][i] < time_window})

\* C21: a request whose account already has max_calls entries in its window
\* is answered 429 at the admission check, telegram_webhook is not called
\* for it, and the step changes no ledger row, no message-log entry, no
\* account field and no awaiting-search flag; a request answered 429 is never
\* one the handler ran for.
C21_RejectedRunsNothing ==
    [][\A r \in Requests :
          /\ (/\ webhook[r].pc = "dependency"
              /\ webhook'[r] # webhook[r]
              /\ LimiterChat(webhook[r]) \in Chats
              /\ InCallWindow(LimiterChat(webhook[r])) >= max_calls)
             => /\ webhook'[r].pc = "done"
                /\ webhook'[r].response = "429"
                /\ UNCHANGED <<transactions, users, phone, message_log, PENDING_SEARCH>>
          /\ webhook'[r].response = "429" => ~webhook'[r].ran]_vars

\* A request was answered 429 while the handler had logged a message and set
\* the awaiting-search flag for requests admitted before it.
C21_Witness ==
    /\ \E r \in Requests : webhook[r].response = "429" /\ ~webhook[r].ran
    /\ message_log # {}
    /\ PENDING_SEARCH # {}

\* C22: the admission check of a request whose body yields no chat id ends
\* admitted whatever the windows hold, and leaves every window as it was.
C22_NoChatAlwaysAdmitted ==
    [][\A r \in Requests :
          (inflight[r] = NoChat /\ inflight'[r] = Idle)
          => /\ last'.outcome = "admitted"
             /\ last'.chat = NoChat
             /\ call_times' = call_times]_vars

\* A request without chat id was admitted while the window of an account
\* held max_calls entries.
C22_Witness ==
    /\ last.chat = NoChat
    /\ last.outcome = "admitted"
    /\ \E c \in Chats : InCallWindow(c) >= max_calls

\* The entries of the window of chat c that are younger than time_window now.
YoungEntries(c) ==
    Cardinality({i \in 1..Len(call_times[c]) : now - call_times[c][i] < time_window})

\* Request r's check for an identified account runs in this step.
ChecksAccount(r) == inflight[r] \in Chats /\ inflight'[r] = Idle

\* C30 (as stated): every check of an identified account records the current
\* timestamp in the window of the account, admitted or rejected, and admits
\* exactly when the window then holds at most max_calls entries.
C30_EveryCheckRecorded ==
    [][\A r \in Requests : ChecksAccount(r) =>
          LET c == inflight[r]
          IN  /\ Len(call_times'[c]) = YoungEntries(c) + 1
              /\ call_times'[c][Len(call_times'[c])] = now
              /\ (last'.outcome = "admitted") = (Len(call_times'[c]) <= max_calls)]_vars

\* C30 (amended): every check of an identified account drops the entries
\* older than the window, admits exactly when the remaining entries and the
\* current call together are at most max_calls, and records the current
\* timestamp only when it admits: a rejected check leaves the remaining
\* entries as they are.
C30_AdmittedChecksRecorded ==
    [][\A r \in Requests : ChecksAccount(r) =>
          LET c == inflight[r]
              admit == YoungEntries(c) + 1 <= max_calls
          IN  /\ last'.chat = c
              /\ (last'.outcome = "admitted") = admit
              /\ (last'.outcome = "429") = ~admit
              /\ \A i \in 1..Len(call_times'[c]) : now - call_times'[c][i] < time_window
              /\ admit => /\ Len(call_times'[c]) = YoungEntries(c) + 1
                          /\ call_times'[c][Len(call_times'[c])] = now
              /\ ~admit => /\ Len(call_times'[c]) = YoungEntries(c)
                           /\ Len(call_times'[c]) = max_calls]_vars

\* A check of an account was rejected, and the window of the account holds
\* max_calls entries: the rejected call is not among them.
C30_Witness ==
    /\ last.chat \in Chats
    /\ last.outcome = "429"
    /\ Len(call_times[last.chat]) = max_calls
    /\ \A r \in Requests : inflight[r] = Idle

\* ---------------------------------------------------------------- keyboards
\* What a call of a pure helper leaves alone.
nonEvalVars == <<rateVars, ledgerVars, call, wizVars, logVars, progress, webhook, phone>>

\* A Python str as runs of characters: n characters of w bytes each in
\* UTF-8 (w = 1: ASCII; w = 3: Devanagari and most other Indian scripts).
Ascii(n) == IF n = 0 THEN <<>> ELSE <<[n |-> n, w |-> 1]>>
Wide(n) == IF n = 0 THEN <<>> ELSE <<[n |-> n, w |-> 3]>>

\* A literal of the source text: ASCII.
Lit(text) == Ascii(Len(text))

\* len(s)
RECURSIVE Chars(_)
Chars(s) == IF s = <<>> THEN 0 ELSE Head(s).n + Chars(Tail(s))

\* len(s.encode("utf-8"))
RECURSIVE Bytes(_)
Bytes(s) == IF s = <<>> THEN 0 ELSE Head(s).n * Head(s).w + Bytes(Tail(s))

\* s[:k], the first k characters of s
RECURSIVE Take(_, _)
Take(s, k) ==
    IF s = <<>> \/ k <= 0 THEN <<>>
    ELSE IF Head(s).n <= k THEN <<Head(s)>> \o Take(Tail(s), k - Head(s).n)
    ELSE <<[Head(s) EXCEPT !.n = k]>>

\* app.py:284-288  make_cancel_btn: f"del_cancel|{level}"
MakeCancelBtn(level) == Lit("del_cancel|") \o level

\* app.py:272-282  kb_delete_entry
KbDeleteEntry == {Lit("del_recent"), Lit("del_search"), MakeCancelBtn(Lit("root"))}

\* app.py:290-296  kb_for_dates: f"del_date|{d}" for each date
KbForDates(dates) ==
    {Lit("del_date|") \o d : d \in dates} \cup {MakeCancelBtn(Lit("root"))}

\* app.py:313-323  kb_for_invoices: f"del_inv|{date_short}|{inv}", date_short
\* the first ten characters of the date
KbForInvoices(inv_numbers, date_iso) ==
    {Lit("del_inv|") \o Take(date_iso, 10) \o Lit("|") \o inv : inv \in inv_numbers}
    \cup {MakeCancelBtn(Lit("date"))}

\* app.py:334  the slice [:64] of kb_for_items
CallbackDataSlice == 64

\* app.py:325-338  kb_for_items: f"del_item|{inv}|{itm}"[:64]
KbForItems(items, inv) ==
    {Take(Lit("del_item|") \o inv \o Lit("|") \o itm, CallbackDataSlice) : itm \in items}
    \cup {MakeCancelBtn(Lit("inv"))}

\* The chat ids of Telegram as text: up to 16 digits, with a sign for groups.
ChatIdTexts == {Ascii(3), Ascii(10), Ascii(17)}

\* tools_util.py:534-538  the invoice numbers generate_invoice builds,
\* f"INV_{chat_id}/{yyyy-mm}/{ddHHMM}", and invoice numbers a caller of
\* generate_invoice or write_transaction supplies.
InvoiceNumberTexts ==
    {Lit("INV_") \o c \o Lit("/2025-07/051230") : c \in ChatIdTexts}
    \cup {Ascii(n) : n \in {1, 45, 46}} \cup {Wide(12)}

\* The item names of the ledger: free text of the user, ASCII or not.
ItemNameTexts ==
    {Ascii(n) : n \in {3, 20, 40}} \cup {Wide(n) : n \in {3, 20, 40}}
    \cup {Ascii(4) \o Wide(10)}

\* The invoice dates as the store returns them:
\* '2025-07-05T00:00:00' with or without an offset or a fraction.
InvoiceDateTexts == {Ascii(19), Ascii(25), Ascii(32)}

\* The non-empty subsets of S with at most two elements.
UpToTwo(S) == {{x, y} : x \in S, y \in S}

\* A keyboard has been built: f names the builder, tokens are the
\* callback_data of its buttons.
Built(f, tokens) == eval' = [f |-> f, tokens |-> tokens]

KB_DeleteEntry ==
    /\ Built("kb_delete_entry", KbDeleteEntry)
    /\ UNCHANGED nonEvalVars

KB_CancelBtn ==
    /\ \E level \in {Lit("root"), Lit("date"), Lit("inv")} :
          Built("make_cancel_btn", {MakeCancelBtn(level)})
    /\ UNCHANGED nonEvalVars

KB_ForDates ==
    /\ \E dates \in UpToTwo(InvoiceDateTexts) : Built("kb_for_dates", KbForDates(dates))
    /\ UNCHANGED nonEvalVars

KB_ForInvoices ==
    /\ \E invs \in UpToTwo(InvoiceNumberTexts), d \in InvoiceDateTexts :
          Built("kb_for_invoices", KbForInvoices(invs, d))
    /\ UNCHANGED nonEvalVars

KB_ForItems ==
    /\ \E items \in UpToTwo(ItemNameTexts), inv \in InvoiceNumberTexts :
          Built("kb_for_items", KbForItems(items, inv))
    /\ UNCHANGED nonEvalVars

KeyboardNext ==
    \/ KB_DeleteEntry
    \/ KB_CancelBtn
    \/ KB_ForDates
    \/ KB_ForInvoices
    \/ KB_ForItems

\* The keyboard builders.
Keyboards ==
    {"kb_delete_entry", "make_cancel_btn", "kb_for_dates", "kb_for_invoices", "kb_for_items"}

\* The limit of Telegram on callback_data.
CallbackDataBytes == 64

\* C23: every callback_data token of every keyboard built is at most 64
\* bytes long.
C23_TokensWithin64Bytes ==
    eval.f \in Keyboards => \A t \in eval.tokens : Bytes(t) <= CallbackDataBytes

\* What does hold: the tokens of kb_for_items are at most 64 characters long,
\* and every token made of ASCII dates and generated invoice numbers alone
\* is within 64 bytes.
TokensOfItemsWithin64Chars ==
    eval.f = "kb_for_items" => \A t \in eval.tokens : Chars(t) <= CallbackDataSlice

\* C24: the task of a callback whose action is none of the known ones
\* returns without raising, and its step changes neither the ledger nor the
\* awaiting-search flag of any account.
C24_UnknownActionIsNoOp ==
    [][\A r \in Requests :
          (/\ webhook[r].pc = "callback_task"
           /\ ~webhook[r].known
           /\ webhook'[r] # webhook[r])
          => /\ webhook'[r].task = "returned"
             /\ UNCHANGED <<transactions, PENDING_SEARCH>>]_vars

\* The task of a callback with an unknown action has returned while the
\* account was awaiting an invoice number and had a row in the ledger.
C24_Witness ==
    /\ \E r \in Requests :
          /\ webhook[r].kind = "callback_query"
          /\ ~webhook[r].known
          /\ webhook[r].pc = "done"
          /\ webhook[r].task = "returned"
    /\ "101" \in PENDING_SEARCH
    /\ RowsOfChat(transactions, "101") # {}

\* ----------------------------------------------------------------- accounts
\* Most update_user_data calls of a run of SpecAccounts.
MaxRollups == 2

\* The amounts update_user_data is called with.
Amounts == {10, 20}

\* The row a failed or empty read leaves update_user_data with: {}.
EmptyRecord == [exists |-> FALSE, total_transactions |-> 0, total_revenue |-> 0]

\* tools_util.py:187-229  update_user_data with the outcomes of its store
\* calls: up1 the first read_user, up2 the upsert of write_user, up3 the
\* second read_user (a read or write that raises is caught inside read_user
\* and write_user and yields None).  The final update reaches the row of the
\* chat if there is one.
UpdateUserDataWith(us, c, amount, up1, up2, up3) ==
    LET found == ReadUser(us, c, up1)
        us1 == IF found \/ ~up2 THEN us ELSE WriteUser(us, c)
        user_record == IF found THEN us[c]
                       ELSE IF ReadUser(us1, c, up3) THEN us1[c]
                       ELSE EmptyRecord
    IN  IF us1[c].exists
        THEN [us1 EXCEPT ![c].total_transactions = user_record.total_transactions + 1,
                         ![c].total_revenue = user_record.total_revenue + amount]
        ELSE us1

\* The number of update_user_data calls that have reached a row is bounded
\* by the totals: no total_transactions above MaxRollups.
AC_UpdateUserData ==
    /\ \E c \in Chats, amount \in Amounts, up1 \in BOOLEAN, up2 \in BOOLEAN, up3 \in BOOLEAN :
          /\ users[c].total_transactions < MaxRollups
          /\ users' = UpdateUserDataWith(users, c, amount, up1, up2, up3)
    /\ UNCHANGED <<rateVars, otherVars, transactions, wtCalls, wtGross, storeFailed,
                   call, wizVars>>

\* tools_util.py:111-149  write_user(chat_id, user_name); the upsert raises
\* (caught) or reaches the store.
AC_WriteUser ==
    /\ \E c \in Chats, up \in BOOLEAN :
          users' = IF up THEN WriteUser(users, c) ELSE users
    /\ UNCHANGED <<rateVars, otherVars, transactions, wtCalls, wtGross, storeFailed,
                   call, wizVars>>

\* tools_util.py:173-185  update_last_used_date(chat_id, user_name)
AC_UpdateLastUsedDate ==
    /\ \E c \in Chats : users' = UpdateLastUsedDate(users, c)
    /\ UNCHANGED <<rateVars, otherVars, transactions, wtCalls, wtGross, storeFailed,
                   call, wizVars>>

AccountsNext ==
    \/ AC_WriteUser
    \/ AC_UpdateLastUsedDate
    \/ AC_UpdateUserData
    \/ WriteTransaction

\* C25: no call makes total_transactions or total_revenue of an account
\* smaller than it was.
C25_TotalsNeverDecrease ==
    [][\A c \in Chats :
          /\ users'[c].total_transactions >= users[c].total_transactions
          /\ users'[c].total_revenue >= users[c].total_revenue]_vars

\* What does hold: the totals of an account row are never negative, and
\* total_revenue is zero while total_transactions is.
TotalsNeverNegative ==
    \A c \in Chats :
        /\ users[c].total_transactions >= 0
        /\ users[c].total_revenue >= 0
        /\ users[c].total_transactions = 0 => users[c].total_revenue = 0

\* C26: when the webhook has handled a message (not rejected by the rate
\* limiter), an account row exists for the chat of the message; a row that
\* was created for it has the default totals.
C26_AccountRowAfterFirstMessage ==
    [][\A r \in Requests :
          (/\ webhook[r].kind \in MessageKinds
           /\ webhook[r].pc \notin {"dependency", "done"}
           /\ webhook'[r].pc = "done")
          => /\ users'[webhook[r].chat].exists
             /\ ~users[webhook[r].chat].exists
                  => /\ users'[webhook[r].chat].total_transactions = 0
                     /\ users'[webhook[r].chat].total_revenue = 0]_vars

\* What does hold: the webhook creates no account row at all; the handler
\* goes past the phone check only for a chat that has a row.
WebhookCreatesNoAccountRow ==
    [][\A c \in Chats : users'[c].exists = users[c].exists]_vars

\* Request r of an identified account passes _dependency in this step and
\* telegram_webhook is called for it.
EntersHandler(r) ==
    /\ webhook[r].pc = "dependency"
    /\ webhook[r].chat \in Chats
    /\ webhook'[r].ran

\* C31: every request of an identified account that telegram_webhook is
\* called for, the callback_query requests of the deletion wizard included,
\* went through the admission check of the account: the window held fewer
\* than max_calls entries and the time of the request is recorded in it.
C31_EveryRequestCounted ==
    [][\A r \in Requests : EntersHandler(r) =>
          LET c == webhook[r].chat
          IN  /\ InCallWindow(c) < max_calls
              /\ Len(call_times'[c]) = InCallWindow(c) + 1
              /\ call_times'[c][Len(call_times'[c])] = now]_vars

\* What does hold: the requests whose body has a top-level message are
\* checked and counted.
MessageRequestsCounted ==
    [][\A r \in Requests : (EntersHandler(r) /\ webhook[r].kind \in MessageKinds) =>
          LET c == webhook[r].chat
          IN  /\ InCallWindow(c) < max_calls
              /\ Len(call_times'[c]) = InCallWindow(c) + 1
              /\ call_times'[c][Len(call_times'[c])] = now]_vars

\* What does hold: a callback_query is never rejected and never counted.
CallbackQueryNeverChecked ==
    [][\A r \in Requests :
          (/\ webhook[r].pc = "dependency"
           /\ webhook[r].kind = "callback_query"
           /\ webhook'[r].pc # "dependency")
          => /\ webhook'[r].ran
             /\ call_times' = call_times]_vars

\* C32: a message with a text from an account that is not awaiting an
\* invoice number goes on as a normal conversational message (the reads,
\* the message log, the agent); it is not handed to the wizard's text task,
\* and no request of such an account ends in that task.
C32_PlainTextGoesOn ==
    [][\A r \in Requests :
          /\ (/\ EntersHandler(r)
              /\ webhook[r].kind = "text"
              /\ webhook[r].chat \notin PENDING_SEARCH)
             => webhook'[r].pc = "gather"
          /\ (/\ webhook[r].pc = "text_task"
              /\ webhook[r].chat \notin PENDING_SEARCH)
             => webhook'[r].pc # "done"]_vars

\* What does hold: the text of an account that is not awaiting is dropped;
\* its task changes no wizard state, no ledger row and no message-log row.
PlainTextIsDropped ==
    [][\A r \in Requests :
          (/\ webhook[r].pc = "text_task"
           /\ webhook[r].chat \notin PENDING_SEARCH
           /\ webhook'[r].pc = "done")
          => /\ UNCHANGED <<ledgerVars, PENDING_SEARCH, screen, message_log>>
             /\ webhook'[r].task = "returned"]_vars

\* What does hold: no message with a text reaches the message log or the
\* agent.
TextNeverReachesAgent ==
    \A r \in Requests :
        webhook[r].kind = "text" => webhook[r].pc \notin {"gather", "touch", "log", "agent", "reply"}

\* --------------------------------------------------------------- CSV export
\* tools_util.py:244-254  read_transactions_vanilla: the rows of the chat, or
\* None when the store raises.
ReadTransactionsVanilla(rows, c, up) ==
    [none |-> ~up,
     data |-> IF up THEN SelectSeq(rows, LAMBDA row : row.chat_id = c) ELSE <<>>]

\* `not data`: None and the empty list alike.
Falsy(d) == d.none \/ d.data = <<>>

\* tools_util.py:256-284  download_Transactions_CSV: what it returns, whether
\* it has written a file, and the lines of the file (header and rows).
\* writeUp: open() and the csv writer do not raise.
DownloadTransactionsCSVFile(rows, c, readUp, writeUp) ==
    LET data == ReadTransactionsVanilla(rows, c, readUp)
    IN  IF Falsy(data)
        THEN [returned |-> "Bhai, there is no transaction for this chat_id.",
              file |-> FALSE, lines |-> 0]
        ELSE IF ~writeUp
        THEN [returned |-> "Error in generating CSV.", file |-> FALSE, lines |-> 0]
        ELSE [returned |-> "file_name", file |-> TRUE, lines |-> Len(data.data) + 1]

\* app.py:715-733  the tool download_transactions_csv: send_document opens
\* the path it is given, which raises when download_Transactions_CSV has
\* returned a message instead of a file name; every exception ends in the
\* same reply.  sendUp: the upload does not raise.
DownloadTransactionsCsv(rows, c, readUp, writeUp, sendUp) ==
    LET csv == DownloadTransactionsCSVFile(rows, c, readUp, writeUp)
    IN  IF ~csv.file
        THEN [result |-> "Error in making CSV. Sorry brother.", inner |-> csv.returned,
              file |-> FALSE, sent |-> FALSE, left |-> FALSE]
        ELSE IF ~sendUp
        THEN [result |-> "Error in making CSV. Sorry brother.", inner |-> csv.returned,
              file |-> TRUE, sent |-> FALSE, left |-> TRUE]
        ELSE [result |-> "CSV Sent Successfully.", inner |-> csv.returned,
              file |-> TRUE, sent |-> TRUE, left |-> FALSE]

\* The agent calls the tool for a chat.
CSV_Download ==
    /\ \E c \in Chats, readUp \in BOOLEAN, writeUp \in BOOLEAN, sendUp \in BOOLEAN :
          eval' = [f |-> "download_transactions_csv", chat_id |-> c,
                   rows |-> Cardinality(RowsOfChat(transactions, c)),
                   readUp |-> readUp, writeUp |-> writeUp, sendUp |-> sendUp,
                   out |-> DownloadTransactionsCsv(transactions, c, readUp, writeUp, sendUp)]
    /\ UNCHANGED nonEvalVars

CsvNext == CSV_Download

\* The replies of the tool when the ledger read or the export fails, over
\* the ledger as it is.
FailureReplies ==
    {DownloadTransactionsCsv(transactions, c, FALSE, w, u).result :
        c \in Chats, w \in BOOLEAN, u \in BOOLEAN}
    \cup {DownloadTransactionsCsv(transactions, c, TRUE, FALSE, u).result :
            c \in {x \in Chats : RowsOfChat(transactions, x) # {}}, u \in BOOLEAN}

\* C27: an export for an account without transactions, the ledger read
\* succeeding, creates and sends no file, and its reply is none of the
\* replies given when the ledger read or the export fails.
C27_NoDataIsDistinct ==
    (eval.f = "download_transactions_csv" /\ eval.readUp /\ eval.rows = 0)
    => /\ ~eval.out.file
       /\ ~eval.out.sent
       /\ eval.out.result \notin FailureReplies

\* What does hold: an export for an account without transactions creates and
\* sends no file and does not report success.
NoDataSendsNothing ==
    (eval.f = "download_transactions_csv" /\ eval.rows = 0)
    => /\ ~eval.out.file
       /\ ~eval.out.sent
       /\ eval.out.result # "CSV Sent Successfully."

\* ----------------------------------------------------- generate_invoice: tax
\* Amounts are floats in the code; the model keeps them in thousandths of a
\* rupee and rounds every quotient to the nearest thousandth, as the float
\* arithmetic rounds every result to the nearest float.
PerRupee == 10^3

\* Tax rates are in hundredths of a percent: 9% is 900, and a factor f is
\* kept as f * PerCent.
PerCent == 10^4

\* a / b rounded to the nearest integer (a >= 0, b > 0)
RoundDiv(a, b) == (2 * a + b) \div (2 * b)

Abs(x) == IF x < 0 THEN -x ELSE x

\* tools_util.py:608-609  tax_factor = 1 + (cgst_rate + sgst_rate + igst_rate)/100.0
TaxFactor(cgst_rate, sgst_rate, igst_rate) == PerCent + (cgst_rate + sgst_rate + igst_rate)

\* Mutant of BaseRate: the tax is taken off the gross rate instead of divided out.
BaseRate_TakesOff(gross_rate, tax_factor) ==
    gross_rate - RoundDiv(gross_rate * (tax_factor - PerCent), PerCent)

\* tools_util.py:614  base_rate = gross_rate / tax_factor
BaseRate(gross_rate, tax_factor) == RoundDiv(gross_rate * PerCent, tax_factor)

\* tools_util.py:615-617  (base_rate*rate/100.0)*qty
TaxAmt(base_rate, rate, qty) == RoundDiv(base_rate * rate, PerCent) * qty

\* tools_util.py:612-619  the values of one line
InvoiceLine(row, cgst_rate, sgst_rate, igst_rate) ==
    LET base_rate == BaseRate(row.rate, TaxFactor(cgst_rate, sgst_rate, igst_rate))
    IN  [base_rate |-> base_rate,
         cgst_amt |-> TaxAmt(base_rate, cgst_rate, row.qty),
         sgst_amt |-> TaxAmt(base_rate, sgst_rate, row.qty),
         igst_amt |-> TaxAmt(base_rate, igst_rate, row.qty),
         base_total |-> base_rate * row.qty,
         gross_total |-> row.rate * row.qty]

\* tools_util.py:607  subtotal = total_cgst = total_sgst = total_igst = grand = 0.0
NoTotals == [subtotal |-> 0, total_cgst |-> 0, total_sgst |-> 0, total_igst |-> 0,
             grand |-> 0]

\* tools_util.py:611-625  the loop over the items: the totals after the
\* first n lines
RECURSIVE InvoiceTotals(_, _)
InvoiceTotals(lines, n) ==
    IF n = 0 THEN NoTotals
    ELSE LET t == InvoiceTotals(lines, n - 1)
         IN  [subtotal |-> t.subtotal + lines[n].base_total,
              total_cgst |-> t.total_cgst + lines[n].cgst_amt,
              total_sgst |-> t.total_sgst + lines[n].sgst_amt,
              total_igst |-> t.total_igst + lines[n].igst_amt,
              grand |-> t.grand + lines[n].gross_total]

\* f"{value:,.2f}": the amount in paise, rounded
Present(value) == RoundDiv(value * 100, PerRupee)

\* GST-inclusive unit rates in paise (0.01, 20.00, 45.00, 99.99) and
\* quantities of the items of an invoice; tax rates in hundredths of a
\* percent.
RatesInPaise == {1, 2000, 4500, 9999}
TaxQuantities == {1, 2, 5}
HalfRates == {0, 250, 900}
IgstRates == {0, 1800}

TaxRows == {[rate |-> p * (PerRupee \div 100), qty |-> q] : p \in RatesInPaise, q \in TaxQuantities}

\* The calls of generate_invoice: the items and the three rates.
TaxCalls ==
    {[f |-> "generate_invoice", pc |-> "called", items |-> items,
      cgst_rate |-> c, sgst_rate |-> g, igst_rate |-> i,
      lines |-> <<>>, totals |-> NoTotals] :
        items \in SeqsUpTo(TaxRows, MaxItems) \ {<<>>},
        c \in HalfRates, g \in HalfRates, i \in IgstRates}

\* generate_invoice has been called with some items and rates.
InitTax ==
    /\ RateInit
    /\ LedgerInit(NoUsers)
    /\ call = NoCall
    /\ WizInit
    /\ LogInit
    /\ progress = [c \in Chats |-> NoProgress]
    /\ webhook = [r \in Requests |-> NoUpdate]
    /\ phone = {}
    /\ eval \in TaxCalls

\* tools_util.py:607-626  the lines and the totals are computed
TAX_Compute ==
    /\ eval.pc = "called"
    /\ LET lines == [n \in 1..Len(eval.items) |->
                        InvoiceLine(eval.items[n], eval.cgst_rate, eval.sgst_rate,
                                    eval.igst_rate)]
       IN  eval' = [eval EXCEPT !.pc = "computed", !.lines = lines,
                                !.totals = InvoiceTotals(lines, Len(lines))]
    /\ UNCHANGED nonEvalVars

TaxNext == TAX_Compute

\* The sum of field f over the lines.
RECURSIVE SumLines(_, _, _)
SumLines(lines, f, n) == IF n = 0 THEN 0 ELSE SumLines(lines, f, n - 1) + lines[n][f]

\* C28: for every line, baseRate * taxFactor is R within one unit of the
\* arithmetic, grossTotal is R * q exactly, the three tax amounts and
\* baseTotal add up to grossTotal within the rounding of the line (three
\* units per piece), and every invoice total is the sum of its line values.
C28_TaxArithmetic ==
    eval.pc = "computed" =>
        LET tf == TaxFactor(eval.cgst_rate, eval.sgst_rate, eval.igst_rate)
            n == Len(eval.items)
        IN  /\ Len(eval.lines) = n
            /\ \A k \in 1..n :
                  LET l == eval.lines[k]
                      R == eval.items[k].rate
                      q == eval.items[k].qty
                  IN  /\ Abs(l.base_rate * tf - R * PerCent) <= tf
                      /\ l.gross_total = R * q
                      /\ Abs(l.cgst_amt + l.sgst_amt + l.igst_amt + l.base_total
                               - l.gross_total) <= 3 * q
            /\ eval.totals.subtotal = SumLines(eval.lines, "base_total", n)
            /\ eval.totals.total_cgst = SumLines(eval.lines, "cgst_amt", n)
            /\ eval.totals.total_sgst = SumLines(eval.lines, "sgst_amt", n)
            /\ eval.totals.total_igst = SumLines(eval.lines, "igst_amt", n)
            /\ eval.totals.grand = SumLines(eval.lines, "gross_total", n)
            /\ (/\ eval.items = <<[rate |-> 20 * PerRupee, qty |-> 5],
                                  [rate |-> 45 * PerRupee, qty |-> 2]>>
                /\ eval.cgst_rate = 900 /\ eval.sgst_rate = 900 /\ eval.igst_rate = 0)
               => /\ Present(eval.totals.grand) = 19000
                  /\ Present(eval.lines[1].base_rate) = 1695
                  /\ Present(eval.lines[2].base_rate) = 3814

\* The invoice of the example has been computed: tea 5 x 20 and sugar 2 x 45
\* at 9% + 9%, with a tax factor of 1.18.
C28_Witness ==
    /\ eval.pc = "computed"
    /\ eval.items = <<[rate |-> 20 * PerRupee, qty |-> 5],
                      [rate |-> 45 * PerRupee, qty |-> 2]>>
    /\ TaxFactor(eval.cgst_rate, eval.sgst_rate, eval.igst_rate) = 11800
    /\ Present(eval.totals.grand) = 19000

\* ------------------------------------------------------------ number_to_words
\* A string is the sequence of its words and of the spaces between them; the
\* empty string is <<>>.
Word(w) == IF w = "" THEN <<>> ELSE <<w>>

\* tools_util.py:447-452  the look-up tables; index n of the code is n + 1 here
ONES == <<"", "One", "Two", "Three", "Four", "Five", "Six", "Seven", "Eight", "Nine">>
TEENS == <<"Ten", "Eleven", "Twelve", "Thirteen", "Fourteen", "Fifteen", "Sixteen",
           "Seventeen", "Eighteen", "Nineteen">>
TENS == <<"", "", "Twenty", "Thirty", "Forty", "Fifty", "Sixty", "Seventy", "Eighty",
          "Ninety">>

\* Mutant of TwoDigits: 10..19 are read from the tens and ones tables.
TwoDigits_NoTeens(n) ==
    IF n = 0 THEN <<>>
    ELSE IF n < 10 THEN Word(ONES[n + 1])
    ELSE Word(TENS[n \div 10 + 1])
           \o (IF n % 10 # 0 THEN <<" ">> \o Word(ONES[(n % 10) + 1]) ELSE <<>>)

\* tools_util.py:455-462  _two_digits
TwoDigits(n) ==
    IF n = 0 THEN <<>>
    ELSE IF n < 10 THEN Word(ONES[n + 1])
    ELSE IF n < 20 THEN Word(TEENS[n - 10 + 1])
    ELSE Word(TENS[n \div 10 + 1])
           \o (IF n % 10 # 0 THEN <<" ">> \o Word(ONES[(n % 10) + 1]) ELSE <<>>)

\* tools_util.py:465-467  _three_digits
ThreeDigits(n) ==
    LET h == n \div 100
        r == n % 100
    IN  (IF h # 0 THEN Word(ONES[h + 1]) \o <<" ", "Hundred", " ">> ELSE <<>>)
          \o TwoDigits(r)

\* str.strip(): the spaces at both ends are removed
RECURSIVE StripSpaces(_)
StripSpaces(s) ==
    IF s = <<>> THEN s
    ELSE IF Head(s) = " " THEN StripSpaces(Tail(s))
    ELSE IF s[Len(s)] = " " THEN StripSpaces(SubSeq(s, 1, Len(s) - 1))
    ELSE s

\* " ".join(parts)
RECURSIVE JoinSpace(_)
JoinSpace(parts) ==
    IF parts = <<>> THEN <<>>
    ELSE IF Len(parts) = 1 THEN parts[1]
    ELSE parts[1] \o <<" ">> \o JoinSpace(Tail(parts))

\* tools_util.py:479-481  Decimal(str(amount)).quantize(0.01, ROUND_HALF_UP),
\* then the rupees and the paise; an amount is its rupees and the
\* thousandths of a rupee after them.
Quantize(amount) ==
    LET hundredths == (amount.mills + 5) \div 10
    IN  IF hundredths = 100 THEN [rupees |-> amount.rupees + 1, paise |-> 0]
        ELSE [rupees |-> amount.rupees, paise |-> hundredths]

\* tools_util.py:470-506  number_to_words
NumberToWords(amount) ==
    LET amt == Quantize(amount)
        rupees == amt.rupees
        paise == amt.paise
        crore == rupees \div 10000000
        rem1 == rupees % 10000000
        lakh == rem1 \div 100000
        rem2 == rem1 % 100000
        thousand == rem2 \div 1000
        rest == rem2 % 1000
        parts ==
            (IF crore # 0 THEN <<StripSpaces(ThreeDigits(crore)) \o <<" ", "Crore">>>>
             ELSE <<>>)
            \o (IF lakh # 0 THEN <<StripSpaces(ThreeDigits(lakh)) \o <<" ", "Lakh">>>>
                ELSE <<>>)
            \o (IF thousand # 0
                THEN <<StripSpaces(ThreeDigits(thousand)) \o <<" ", "Thousand">>>>
                ELSE <<>>)
            \o (IF rest # 0 THEN <<StripSpaces(ThreeDigits(rest))>> ELSE <<>>)
        words == IF rupees = 0 THEN <<"Zero", " ", "Rupees">>
                 ELSE JoinSpace(parts) \o <<" ", "Rupees">>
    IN  IF paise # 0
        THEN words \o <<" ", "and", " ">> \o TwoDigits(paise) \o <<" ", "Paise">>
               \o <<" ", "Only">>
        ELSE words \o <<" ", "Only">>

\* Amounts below 100 crore, the range of the docstring: the crores, lakhs,
\* thousands and the last three digits of the rupees, and the thousandths.
CroreDigits == {0, 1, 12, 99}
LakhDigits == {0, 1, 10, 99}
ThousandDigits == {0, 1, 23, 99}
RestDigits == {0, 1, 10, 19, 100, 456, 999}
Mills == {0, 4, 5, 500, 780, 995}

MaxRupees == 999999999

WordAmounts ==
    {a \in {[rupees |-> ((c * 100 + l) * 100 + t) * 1000 + r, mills |-> m] :
              c \in CroreDigits, l \in LakhDigits, t \in ThousandDigits,
              r \in RestDigits, m \in Mills} :
        a.rupees < MaxRupees \/ (a.rupees = MaxRupees /\ a.mills <= 990)}

\* number_to_words has been called with an amount.
InitWords ==
    /\ RateInit
    /\ LedgerInit(NoUsers)
    /\ call = NoCall
    /\ WizInit
    /\ LogInit
    /\ progress = [c \in Chats |-> NoProgress]
    /\ webhook = [r \in Requests |-> NoUpdate]
    /\ phone = {}
    /\ eval \in {[f |-> "number_to_words", pc |-> "called", amount |-> a,
                  words |-> <<>>] : a \in WordAmounts}

\* tools_util.py:470-506  number_to_words returns
NTW_Return ==
    /\ eval.pc = "called"
    /\ eval' = [eval EXCEPT !.pc = "returned", !.words = NumberToWords(eval.amount)]
    /\ UNCHANGED nonEvalVars

WordsNext == NTW_Return

\* The number a word of the tables stands for; "Zero" is 0.
NumberOf(w) ==
    IF w # "" /\ \E i \in 1..Len(ONES) : ONES[i] = w
    THEN (CHOOSE i \in 1..Len(ONES) : ONES[i] = w) - 1
    ELSE IF \E i \in 1..Len(TEENS) : TEENS[i] = w
    THEN (CHOOSE i \in 1..Len(TEENS) : TEENS[i] = w) + 9
    ELSE IF w # "" /\ \E i \in 1..Len(TENS) : TENS[i] = w
    THEN ((CHOOSE i \in 1..Len(TENS) : TENS[i] = w) - 1) * 10
    ELSE IF w = "Zero" THEN 0
    ELSE -1000000000

\* The number the words W[k..] read as on the Indian scale, after `total`
\* of closed groups and `cur` of the open group.
RECURSIVE WordsValue(_, _, _, _)
WordsValue(W, k, total, cur) ==
    IF k > Len(W) THEN total + cur
    ELSE IF W[k] = "Hundred" THEN WordsValue(W, k + 1, total, cur * 100)
    ELSE IF W[k] = "Thousand" THEN WordsValue(W, k + 1, total + cur * 1000, 0)
    ELSE IF W[k] = "Lakh" THEN WordsValue(W, k + 1, total + cur * 100000, 0)
    ELSE IF W[k] = "Crore" THEN WordsValue(W, k + 1, total + cur * 10000000, 0)
    ELSE WordsValue(W, k + 1, total, cur + NumberOf(W[k]))

\* The position of word w in s, 0 if it is not there.
PosOf(s, w) == IF \E i \in 1..Len(s) : s[i] = w
               THEN CHOOSE i \in 1..Len(s) : s[i] = w /\ \A j \in 1..(i - 1) : s[j] # w
               ELSE 0

NotSpace(w) == w # " "

\* C29: for every amount up to the maximum, the words are single-spaced
\* and end in "Only"; there is one rupee clause, "Zero Rupees" exactly when
\* the rupees are zero; the paise clause is there exactly when the paise are
\* not zero; the rupee clause reads as the rupees on the scale of crore,
\* lakh, thousand and hundred, each scale word there exactly when its group
\* is not zero, and the paise clause reads as the paise.
C29_AmountInWords ==
    eval.pc = "returned" =>
        LET s == eval.words
            amt == Quantize(eval.amount)
            r == PosOf(s, "Rupees")
            a == PosOf(s, "and")
            p == PosOf(s, "Paise")
            rupeeClause == SelectSeq(SubSeq(s, 1, r - 1), NotSpace)
            paiseClause == SelectSeq(SubSeq(s, a + 1, p - 1), NotSpace)
            has(w) == PosOf(s, w) # 0
        IN  /\ Len(s) % 2 = 1
            /\ \A i \in 1..Len(s) : (s[i] = " ") = (i % 2 = 0)
            /\ s[Len(s)] = "Only"
            /\ r > 1
            /\ (amt.rupees = 0) = (SubSeq(s, 1, 3) = <<"Zero", " ", "Rupees">>)
            /\ has("Zero") => amt.rupees = 0
            /\ WordsValue(rupeeClause, 1, 0, 0) = amt.rupees
            /\ has("Crore") = (amt.rupees \div 10000000 # 0)
            /\ has("Lakh") = ((amt.rupees % 10000000) \div 100000 # 0)
            /\ has("Thousand") = ((amt.rupees % 100000) \div 1000 # 0)
            /\ has("Paise") = (amt.paise # 0)
            /\ has("and") = (amt.paise # 0)
            /\ amt.paise # 0 =>
                  /\ a = r + 2
                  /\ p = Len(s) - 2
                  /\ WordsValue(paiseClause, 1, 0, 0) = amt.paise
            /\ amt.paise = 0 => r = Len(s) - 2
            /\ eval.amount = [rupees |-> 0, mills |-> 0]
                  => s = <<"Zero", " ", "Rupees", " ", "Only">>
            /\ eval.amount = [rupees |-> 100, mills |-> 0]
                  => s = <<"One", " ", "Hundred", " ", "Rupees", " ", "Only">>
            /\ eval.amount = [rupees |-> 1, mills |-> 500]
                  => s = <<"One", " ", "Rupees", " ", "and", " ", "Fifty", " ", "Paise",
                           " ", "Only">>

\* The amount of the docstring, 123456.78, has been rendered: a rupee clause
\* on the Indian scale and a paise clause.
C29_Witness ==
    /\ eval.pc = "returned"
    /\ eval.amount = [rupees |-> 123456, mills |-> 780]
    /\ SelectSeq(eval.words, NotSpace)
         = <<"One", "Lakh", "Twenty", "Three", "Thousand", "Four", "Hundred", "Fifty",
             "Six", "Rupees", "and", "Seventy", "Eight", "Paise", "Only">>

\* ----------------------------------------------- callback tokens, read back
\* A text as the sequence of its characters.
Rep(ch, n) == [i \in 1..n |-> ch]

DelItem == <<"d", "e", "l", "_", "i", "t", "e", "m">>

\* app.py:333  f"del_item|{inv}|{itm}"[:64], character by character
ItemToken(inv, itm) ==
    LET data == DelItem \o <<"|">> \o inv \o <<"|">> \o itm
    IN  SubSeq(data, 1, Min(Len(data), CallbackDataSlice))

\* str.split(sep): the pieces between the separators, at least one
RECURSIVE Split(_, _)
Split(s, sep) ==
    IF \A i \in 1..Len(s) : s[i] # sep THEN <<s>>
    ELSE LET i == CHOOSE k \in 1..Len(s) :
                     s[k] = sep /\ \A j \in 1..(k - 1) : s[j] # sep
         IN  <<SubSeq(s, 1, i - 1)>> \o Split(SubSeq(s, i + 1, Len(s)), sep)

\* app.py:385, 447-449  action, *parts = cq["data"].split("|"), and in the
\* del_item branch `inv, item = parts`, which raises ValueError unless there
\* are two parts.
ParseCallback(data) ==
    LET pieces == Split(data, "|")
        action == Head(pieces)
        parts == Tail(pieces)
    IN  IF action # DelItem THEN [branch |-> "other", raised |-> FALSE, inv |-> <<>>, item |-> <<>>]
        ELSE IF Len(parts) # 2
        THEN [branch |-> "del_item", raised |-> TRUE, inv |-> <<>>, item |-> <<>>]
        ELSE [branch |-> "del_item", raised |-> FALSE, inv |-> parts[1], item |-> parts[2]]

\* Invoice numbers: those generate_invoice builds, INV_{chat_id}/{yyyy-mm}/
\* {ddHHMM} (22 characters for a chat id of 3 digits, 29 for one of 10), and
\* those a caller supplies, short, long or with a "|".
TokenInvoices ==
    {Rep("n", 1), Rep("n", 10), Rep("n", 22), Rep("n", 29), Rep("n", 40),
     <<"A", "|", "7">>}

\* Item names are the user's free text.
TokenItems ==
    {Rep("x", 1), Rep("x", 3), Rep("x", 20), Rep("x", 27), Rep("x", 33), Rep("x", 60),
     <<"a", "|", "b">>, <<"t", "e", "a", "|">>}

NoParse == [branch |-> "none", raised |-> FALSE, inv |-> <<>>, item |-> <<>>]

\* The item list of invoice inv is about to be shown, with item itm on it.
InitTokens ==
    /\ RateInit
    /\ LedgerInit(NoUsers)
    /\ call = NoCall
    /\ WizInit
    /\ LogInit
    /\ progress = [c \in Chats |-> NoProgress]
    /\ webhook = [r \in Requests |-> NoUpdate]
    /\ phone = {}
    /\ eval \in {[f |-> "kb_for_items", pc |-> "called", inv |-> inv, item |-> itm,
                  token |-> <<>>, parsed |-> NoParse] :
                    inv \in TokenInvoices, itm \in TokenItems}

\* app.py:325-338  kb_for_items emits the token of the item
TOK_Emit ==
    /\ eval.pc = "called"
    /\ eval' = [eval EXCEPT !.pc = "emitted", !.token = ItemToken(eval.inv, eval.item)]
    /\ UNCHANGED nonEvalVars

\* app.py:382-385, 447-449  the user presses the button: Telegram hands the
\* token back as it was and handle_delete_callback reads it
TOK_Callback ==
    /\ eval.pc = "emitted"
    /\ eval' = [eval EXCEPT !.pc = "parsed", !.parsed = ParseCallback(eval.token)]
    /\ UNCHANGED nonEvalVars

TokenNext == TOK_Emit \/ TOK_Callback

\* C34: the token kb_for_items emits for (I, X), handed back as it was, is
\* read by handle_delete_callback without error as the pair (I, X).
C34_TokenRoundTrip ==
    eval.pc = "parsed" =>
        /\ eval.parsed.branch = "del_item"
        /\ ~eval.parsed.raised
        /\ eval.parsed.inv = eval.inv
        /\ eval.parsed.item = eval.item

HasPipe(s) == \E i \in 1..Len(s) : s[i] = "|"

\* What does hold: the pair comes back when neither text holds a "|" and
\* the token is not cut; a cut token without "|" is read as the invoice
\* number and a prefix of the item name; a "|" in the texts makes the
\* assignment raise.
TokenRoundTripWhenShort ==
    eval.pc = "parsed" =>
        LET whole == Len(DelItem) + 2 + Len(eval.inv) + Len(eval.item)
            cut == whole > CallbackDataSlice
        IN  /\ (~HasPipe(eval.inv) /\ ~HasPipe(eval.item) /\ ~cut)
               => /\ ~eval.parsed.raised
                  /\ eval.parsed.inv = eval.inv
                  /\ eval.parsed.item = eval.item
            /\ (~HasPipe(eval.inv) /\ ~HasPipe(eval.item) /\ cut)
               => /\ ~eval.parsed.raised
                  /\ eval.parsed.inv = eval.inv
                  /\ eval.parsed.item # eval.item
            /\ (HasPipe(eval.inv) /\ ~cut) => eval.parsed.raised

\* ------------------------------------------- the rollup, calls side by side
\* The tool calls that run at the same time, each in its own thread, all for
\* account 101.
RollupWorkers == {"t1", "t2"}
RollupChat == "101"

\* A thread that has made no call yet.
NoRollup == [kind |-> "none", pc |-> "idle", amount |-> 0, user_record |-> EmptyRecord]

\* The threads, and whether one call began while another was under way.
NoRollups == [f |-> "rollup", t |-> [w \in RollupWorkers |-> NoRollup], overlapped |-> FALSE]

UnderWay(t) == t.pc \notin {"idle", "done"}

\* Thread w begins a call of the kind given at the step pc.
Begins(w, kind, pc, amount) ==
    eval' = [eval EXCEPT
               !.t[w] = [NoRollup EXCEPT !.kind = kind, !.pc = pc, !.amount = amount],
               !.overlapped = @ \/ \E v \in RollupWorkers \ {w} : UnderWay(eval.t[v])]

\* tools_util.py:287-311  write_transaction(chat_id, ...) is called and
\* inserts its row.
RU_WriteTransaction(w, item, price) ==
    /\ eval.t[w].pc = "idle"
    /\ transactions' = Append(transactions,
                              Row(RollupChat, item, 1, price, 0, InvoiceNumber(RollupChat, 0)))
    /\ Begins(w, "write_transaction", "rollup", price)
    /\ UNCHANGED <<rateVars, users, wtCalls, wtGross, storeFailed, call, wizVars,
                   logVars, progress, webhook, phone>>

\* tools_util.py:312-317  update_user_data(chat_id, total_price): total_price
\* is no name of the function, the NameError is caught and the call returns
\* None; were it bound, update_user_data would begin.
RU_Line312(w) ==
    /\ eval.t[w].pc = "rollup"
    /\ eval' = [eval EXCEPT !.t[w].pc = IF RollupArgumentBound THEN "read" ELSE "done"]
    /\ UNCHANGED nonEvalVars

\* tools_util.py:187  update_user_data(chat_id, transaction_amount) is called.
RU_UpdateUserData(w, amount) ==
    /\ eval.t[w].pc = "idle"
    /\ Begins(w, "update_user_data", "read", amount)
    /\ UNCHANGED nonEvalVars

\* tools_util.py:197-200  user_record = read_user(chat_id)
RU_Read(w) ==
    /\ eval.t[w].pc = "read"
    /\ eval' = [eval EXCEPT
                  !.t[w].pc = IF users[RollupChat].exists THEN "update" ELSE "create",
                  !.t[w].user_record = IF users[RollupChat].exists THEN users[RollupChat]
                                       ELSE EmptyRecord]
    /\ UNCHANGED nonEvalVars

\* tools_util.py:202  write_user(chat_id, user_name="")
RU_Create(w) ==
    /\ eval.t[w].pc = "create"
    /\ users' = WriteUser(users, RollupChat)
    /\ eval' = [eval EXCEPT !.t[w].pc = "reread"]
    /\ UNCHANGED <<rateVars, transactions, wtCalls, wtGross, storeFailed, call, wizVars,
                   logVars, progress, webhook, phone>>

\* tools_util.py:203  user_record = read_user(chat_id) or {}
RU_Reread(w) ==
    /\ eval.t[w].pc = "reread"
    /\ eval' = [eval EXCEPT !.t[w].pc = "update",
                            !.t[w].user_record = users[RollupChat]]
    /\ UNCHANGED nonEvalVars

\* tools_util.py:206-223  the totals read, plus 1 and plus the amount, are
\* written to the row of the chat.
RU_Update(w) ==
    /\ eval.t[w].pc = "update"
    /\ users' = IF users[RollupChat].exists
                THEN [users EXCEPT
                        ![RollupChat].total_transactions =
                            eval.t[w].user_record.total_transactions + 1,
                        ![RollupChat].total_revenue =
                            eval.t[w].user_record.total_revenue + eval.t[w].amount]
                ELSE users
    /\ eval' = [eval EXCEPT !.t[w].pc = "done"]
    /\ UNCHANGED <<rateVars, transactions, wtCalls, wtGross, storeFailed, call, wizVars,
                   logVars, progress, webhook, phone>>

RollupNext ==
    \E w \in RollupWorkers :
        \/ \E item \in ItemNames, price \in Amounts : RU_WriteTransaction(w, item, price)
        \/ RU_Line312(w)
        \/ \E amount \in Amounts : RU_UpdateUserData(w, amount)
        \/ RU_Read(w)
        \/ RU_Create(w)
        \/ RU_Reread(w)
        \/ RU_Update(w)

\* The store holds no row, and the account row of chat 101 with zero totals
\* or none; no call has been made.
InitRollup ==
    /\ RateInit
    /\ \E us \in InitialUsers : LedgerInit(us)
    /\ call = NoCall
    /\ WizInit
    /\ LogInit
    /\ progress = [c \in Chats |-> NoProgress]
    /\ webhook = [r \in Requests |-> NoUpdate]
    /\ phone = {}
    /\ eval = NoRollups

\* Every thread has made a call of the kind given and the calls are over.
AllDone(kind) ==
    \A w \in RollupWorkers : eval.t[w].kind = kind /\ eval.t[w].pc = "done"

RECURSIVE SumAmounts(_)
SumAmounts(W) ==
    IF W = {} THEN 0
    ELSE LET w == CHOOSE x \in W : TRUE IN eval.t[w].amount + SumAmounts(W \ {w})

\* C37: when two write_transaction calls for the same account have run at
\* the same time and both are over, total_transactions has grown by exactly
\* 2 and total_revenue by the sum of the two line totals.
C37_NoLostUpdate ==
    (AllDone("write_transaction") /\ eval.overlapped) =>
        /\ users[RollupChat].exists
        /\ users[RollupChat].total_transactions = 2
        /\ users[RollupChat].total_revenue = SumAmounts(RollupWorkers)

\* What does hold of write_transaction: its calls leave the totals alone.
WriteTransactionNeverRollsUp ==
    (\A w \in RollupWorkers : eval.t[w].kind \in {"none", "write_transaction"}) =>
        /\ users[RollupChat].total_transactions = 0
        /\ users[RollupChat].total_revenue = 0

\* What does hold of update_user_data called on its own: two calls one
\* after the other add 2 and the sum; two calls side by side add 1 or 2,
\* and the revenue is one of the amounts or their sum.
DirectRollupsMayLoseOne ==
    AllDone("update_user_data") =>
        /\ users[RollupChat].exists
        /\ users[RollupChat].total_transactions \in {1, 2}
        /\ users[RollupChat].total_revenue
              \in {eval.t[w].amount : w \in RollupWorkers} \cup {SumAmounts(RollupWorkers)}
        /\ ~eval.overlapped =>
              /\ users[RollupChat].total_transactions = 2
              /\ users[RollupChat].total_revenue = SumAmounts(RollupWorkers)

\* Two update_user_data calls side by side have lost one update.
LostUpdateReached ==
    /\ AllDone("update_user_data")
    /\ users[RollupChat].total_transactions = 1

\* -------------------------------------------------- the reads of the wizard
\* The limits get_recent_dates is called with in SpecReads (the wizard
\* passes 10, app.py:411; the ledgers here have at most WizRows rows).
ReadLimits == 1..WizRows

\* The rows of the ledgers of SpecReads: for chat 101 a row of any second of
\* any day under any invoice number (write_transaction stores
\* datetime.fromisoformat(invoice_date), tools_util.py:292, which keeps the
\* time of day of a date given with one), and one row for chat 102.
ReadRowUniverse ==
    {[Row("101", "tea", 1, 10, d, inv) EXCEPT !.invoice_date = Stamp(d, tod)] :
        d \in Days, tod \in 0..(DayLen - 1), inv \in WizInvoices}
    \cup {Row("102", "tea", 1, 10, 0, InvoiceNumber("101", 0))}

ReadRowSeq == SetToSeq(ReadRowUniverse)

\* The ledgers of at most WizRows + 1 rows, one for each multiset of rows.
ReadLedgers ==
    UNION {{[i \in 1..k |-> ReadRowSeq[f[i]]] :
                f \in {g \in [1..k -> 1..Len(ReadRowSeq)] :
                          \A i \in 1..k, j \in 1..k : i < j => g[i] <= g[j]}} :
           k \in 0..(WizRows + 1)}

\* A read of the wizard is called: get_recent_dates(chat_id, limit_) or
\* get_invoice_numbers(chat_id, date_iso), on some ledger.
InitReads ==
    /\ RateInit
    /\ users = NoUsers
    /\ wtCalls = <<>>
    /\ wtGross = [c \in Chats |-> 0]
    /\ storeFailed = FALSE
    /\ transactions \in ReadLedgers
    /\ call = NoCall
    /\ WizInit
    /\ LogInit
    /\ progress = [c \in Chats |-> NoProgress]
    /\ webhook = [r \in Requests |-> NoUpdate]
    /\ phone = {}
    /\ eval \in {[f |-> "get_recent_dates", pc |-> "called", chat |-> c, arg |-> n,
                  dates |-> <<>>, numbers |-> {}] : c \in Chats, n \in ReadLimits}
                \cup {[f |-> "get_invoice_numbers", pc |-> "called", chat |-> c,
                       arg |-> Stamp(d, tod), dates |-> <<>>, numbers |-> {}] :
                         c \in Chats, d \in Days, tod \in {0, DayLen - 1}}

\* app.py:298-309  get_recent_dates returns
RD_RecentDates ==
    /\ eval.f = "get_recent_dates"
    /\ eval.pc = "called"
    /\ eval' = [eval EXCEPT !.pc = "returned",
                            !.dates = GetRecentDates(transactions, eval.chat, eval.arg)]
    /\ UNCHANGED nonEvalVars

\* app.py:358-369  get_invoice_numbers returns
RD_InvoiceNumbers ==
    /\ eval.f = "get_invoice_numbers"
    /\ eval.pc = "called"
    /\ eval' = [eval EXCEPT !.pc = "returned",
                            !.numbers = GetInvoiceNumbers(transactions, eval.chat, eval.arg)]
    /\ UNCHANGED nonEvalVars

ReadsNext == RD_RecentDates \/ RD_InvoiceNumbers

\* The distinct invoice dates of the chat of the call, newest first.
DistinctDates == SortDesc(OwnValues(eval.chat, "invoice_date"))

\* C38: get_recent_dates(chat_id, limit) returns the min(limit, number of
\* distinct invoice dates) newest distinct invoice dates of the account,
\* newest first, however many rows share a date.
C38_NewestDistinctDates ==
    (eval.f = "get_recent_dates" /\ eval.pc = "returned") =>
        eval.dates = SubSeq(DistinctDates, 1, Min(eval.arg, Len(DistinctDates)))

\* What does hold: the dates returned are the first of the account's
\* distinct dates, newest first, at most limit of them and at least one
\* when the account has a row; they are all of the first limit when the
\* account has at most limit rows.
RecentDatesArePrefix ==
    (eval.f = "get_recent_dates" /\ eval.pc = "returned") =>
        /\ Len(eval.dates) <= Min(eval.arg, Len(DistinctDates))
        /\ eval.dates = SubSeq(DistinctDates, 1, Len(eval.dates))
        /\ DistinctDates # <<>> => eval.dates # <<>>
        /\ Cardinality(RowsOfChat(transactions, eval.chat)) <= eval.arg
              => eval.dates = SubSeq(DistinctDates, 1, Min(eval.arg, Len(DistinctDates)))

\* C39: get_invoice_numbers(chat_id, date) returns exactly the invoice
\* numbers of the rows of the account whose invoice_date is on the day of
\* date, from its first second to its last.
C39_WholeDayListed ==
    (eval.f = "get_invoice_numbers" /\ eval.pc = "returned") =>
        eval.numbers =
            {transactions[i].invoice_number : i \in
                {i \in RowsOfChat(transactions, eval.chat) :
                    DayOf(transactions[i].invoice_date) = DayOf(eval.arg)}}

\* What does hold: the invoice numbers returned are those of the rows of
\* the account on that day before its last second, whatever the time of
\* day of the date asked for.
DayListedButLastSecond ==
    (eval.f = "get_invoice_numbers" /\ eval.pc = "returned") =>
        eval.numbers =
            {transactions[i].invoice_number : i \in
                {i \in RowsOfChat(transactions, eval.chat) :
                    /\ DayOf(transactions[i].invoice_date) = DayOf(eval.arg)
                    /\ transactions[i].invoice_date # Stamp(DayOf(eval.arg), DayLen - 1)}}

\* ------------------------------------------- the tax of a row and of a line
\* tools_util.py:299  "tax_amount": tax_rate*price_per_unit*quantity/100,
\* the quotient rounded to the nearest thousandth
StoredTaxAmount(tax_rate, price_per_unit, quantity) ==
    (tax_rate * price_per_unit * quantity + PerCent \div 2) \div PerCent

\* tools_util.py:298  "total_price_including_tax": price_per_unit*quantity
StoredTotal(price_per_unit, quantity) == price_per_unit * quantity

\* One line is invoiced and written: generate_invoice is called with the
\* item and the three rates, write_transaction with the same GST-inclusive
\* price and quantity and the sum of the rates as tax_rate.
InitTaxRow ==
    /\ RateInit
    /\ LedgerInit(NoUsers)
    /\ call = NoCall
    /\ WizInit
    /\ LogInit
    /\ progress = [c \in Chats |-> NoProgress]
    /\ webhook = [r \in Requests |-> NoUpdate]
    /\ phone = {}
    /\ eval \in {[f |-> "write_transaction", pc |-> "called", row |-> row,
                  cgst_rate |-> c, sgst_rate |-> g, igst_rate |-> i,
                  line |-> InvoiceLine(row, 0, 0, 0), tax_amount |-> 0,
                  total_price_including_tax |-> 0] :
                    row \in TaxRows, c \in HalfRates, g \in HalfRates, i \in IgstRates}

\* tools_util.py:612-620  generate_invoice computes the line
TR_Invoice ==
    /\ eval.pc = "called"
    /\ eval' = [eval EXCEPT !.pc = "invoiced",
                            !.line = InvoiceLine(eval.row, eval.cgst_rate, eval.sgst_rate,
                                                 eval.igst_rate)]
    /\ UNCHANGED nonEvalVars

\* tools_util.py:294-310  write_transaction builds the row
TR_Write ==
    /\ eval.pc = "invoiced"
    /\ eval' = [eval EXCEPT
                  !.pc = "written",
                  !.tax_amount =
                      StoredTaxAmount(eval.cgst_rate + eval.sgst_rate + eval.igst_rate,
                                      eval.row.rate, eval.row.qty),
                  !.total_price_including_tax = StoredTotal(eval.row.rate, eval.row.qty)]
    /\ UNCHANGED nonEvalVars

TaxRowNext == TR_Invoice \/ TR_Write

\* The tax generate_invoice computes for the line.
LineTax == eval.line.cgst_amt + eval.line.sgst_amt + eval.line.igst_amt

\* C40: the tax_amount write_transaction stores is the total tax
\* generate_invoice computes for the line from the GST-inclusive price, and
\* with the ex-tax base total it makes up total_price_including_tax (both
\* within the rounding of the line, three units per piece and one).
C40_StoredTaxIsLineTax ==
    eval.pc = "written" =>
        /\ Abs(eval.tax_amount - LineTax) <= 3 * eval.row.qty + 1
        /\ Abs(eval.tax_amount + eval.line.base_total - eval.total_price_including_tax)
              <= 3 * eval.row.qty + 1

\* What does hold: the total stored is the gross total of the line; the tax
\* stored is the rate applied to the GST-inclusive total, which is the tax
\* of the line only at a rate of zero and is never below it; the tax stored
\* and the tax of the line differ by the rate applied to the tax of the line.
StoredTaxIsTaxOnGross ==
    eval.pc = "written" =>
        LET pct == eval.cgst_rate + eval.sgst_rate + eval.igst_rate
        IN  /\ eval.total_price_including_tax = eval.line.gross_total
            /\ Abs(eval.tax_amount * PerCent - pct * eval.line.gross_total) <= PerCent
            /\ pct = 0 => (eval.tax_amount = 0 /\ LineTax = 0)
            /\ eval.tax_amount >= LineTax - (3 * eval.row.qty + 1)
            /\ Abs((eval.tax_amount - LineTax) * PerCent - pct * LineTax)
                  <= (3 * eval.row.qty + 1) * (PerCent + pct)

Init ==
    /\ RateInit
    /\ LedgerInit(NoUsers)
    /\ call = NoCall
    /\ WizInit
    /\ OtherInit

SpecRateLimiter == Init /\ [][RateNext]_vars

SpecInvoice == Init /\ [][InvoiceNext]_vars

\* SpecLedger starts with any of the initial account tables.
InitLedger ==
    /\ RateInit
    /\ \E us \in InitialUsers : LedgerInit(us)
    /\ call = NoCall
    /\ WizInit
    /\ OtherInit

SpecLedger == InitLedger /\ [][LedgerNext]_vars

SpecValidate == Init /\ [][ValidateNext]_vars

SpecKeyboards == Init /\ [][KeyboardNext]_vars

SpecAccounts == InitLedger /\ [][AccountsNext]_vars

SpecCsv == InitWizard /\ [][CsvNext]_vars

SpecTax == InitTax /\ [][TaxNext]_vars

SpecWords == InitWords /\ [][WordsNext]_vars

SpecTokens == InitTokens /\ [][TokenNext]_vars

SpecRollup == InitRollup /\ [][RollupNext]_vars

SpecReads == InitReads /\ [][ReadsNext]_vars

SpecTaxRow == InitTaxRow /\ [][TaxRowNext]_vars

=============================================================================
